---- MODULE Spec2Model ----
(***************************************************************************)
(* Model of the dashboard: the transcript formatter                        *)
(* (src/modules/TranscriptFormatter.js) and the login flow                 *)
(* (src/modules/AuthModule.js, src/utils/RateLimiter.js, the               *)
(* authentication service and src/config/constants.js).                    *)
(*                                                                         *)
(* A JavaScript string is a sequence of one-character strings; every       *)
(* JavaScript value is a record tagged by its type in field t.             *)
(***************************************************************************)
EXTENDS Integers, Sequences, FiniteSets

VARIABLES
    transcript,  \* the argument of format
    pc,          \* "called" | "returned" | "threw"
    messages,    \* format's local variable messages when it ended
    html,        \* the value format returned (Undefined until it returns)
    log,         \* the invocations of format that ended: argument and outcome
    config,      \* AppConfig.DEV_MODE
    now,         \* Date.now()
    store,       \* localStorage item login_attempts (Null when absent)
    pending,     \* the authentication requests that wait for their answer
    view,        \* the view shown: "login" | "dashboard" | "reset"
    shown,       \* the content of the login-error container
    called,      \* the last submission of this page called AuthenticationService.authenticate
    grantedBy,   \* what the stored session was granted by: "webhook" | "bypass" | "nothing"
    session,     \* sessionStorage item dashboard_session (Null when absent)
    sessionAt,   \* when the stored session was created (-1 when none is stored)
    issued,      \* the requests posted since the attempts were last reset, up to IssuedCap
    checked,     \* what the last checkLockoutStatus of this page found ("never": none yet)
    recoveryEndpoint,  \* AppConfig.API_ENDPOINTS.REQUEST_PASSWORD_RESET
    recoveryModal,     \* the display of the forgot-password modal: "none" | "flex"
    recoveryUsername,  \* the value of the input recovery-username
    recoveryMessage,   \* the recovery message container: its class and its text
    submitButton,      \* the submit button of the recovery form: disabled, innerHTML
    recoveryRequest,   \* the recovery request that waits for its answer, or NoRequest
    hideTimers,        \* the timers set to hide the modal that have not fired
    answered,          \* the last answered recovery request: the outcome of its POST
                       \* and the class of the message shown for it
    callsPending,          \* the requests of loadCallHistory that wait for their response
    tableBody,             \* calls-table-body: what it shows, and the data-call-index of
                           \* the transcript button of each row (-1: no button)
    formattedTranscripts,  \* CallsModule.formattedTranscripts (Undefined: a hole)
    loadedCalls,           \* CallsModule.loadedCalls
    tableCalls,            \* the calls of the renderCallsTable that wrote the rows shown
    modalBody,             \* the innerHTML of transcript-modal-body
    totalMinutes,   \* the argument of formatMinutesToReadable
    minutesPc,      \* "start" before formatMinutesToReadable ran, "done" after
    readable        \* what formatMinutesToReadable returned

formatVars == <<transcript, pc, messages, html, log>>

loginVars ==
    <<config, now, store, pending, view, shown, called, grantedBy, session, sessionAt, issued,
      checked>>

recoveryVars ==
    <<recoveryEndpoint, recoveryModal, recoveryUsername, recoveryMessage, submitButton,
      recoveryRequest, hideTimers, answered>>

callsVars ==
    <<callsPending, tableBody, formattedTranscripts, loadedCalls, tableCalls, modalBody>>

minutesVars == <<totalMinutes, minutesPc, readable>>

vars == <<formatVars, loginVars, recoveryVars, callsVars, minutesVars>>

\* the variables of the other parts of the dashboard
outsideFormat == <<loginVars, recoveryVars, callsVars, minutesVars>>

outsideLogin == <<formatVars, recoveryVars, callsVars, minutesVars>>

outsideRecovery == <<formatVars, loginVars, callsVars, minutesVars>>

outsideCalls == <<formatVars, loginVars, recoveryVars, minutesVars>>

outsideMinutes == <<formatVars, loginVars, recoveryVars, callsVars>>

----------------------------------------------------------------------------
(* Bounds of the enumerated inputs *)

MaxEntries == 2

MaxLines == 3

MaxInvocations == 3

----------------------------------------------------------------------------
(* JavaScript values *)

Undefined == [t |-> "undefined"]

Null == [t |-> "null"]

Bool(b) == [t |-> "bool", b |-> b]

Num(n) == [t |-> "num", n |-> n]

Str(s) == [t |-> "str", s |-> s]

Arr(a) == [t |-> "arr", a |-> a]

\* o is the sequence of the object's own properties [k, v] in insertion order
Obj(o) == [t |-> "obj", o |-> o]

Prop(k, v) == [k |-> k, v |-> v]

IsString(v) == v.t = "str"

IsArray(v) == v.t = "arr"

\* ToBoolean, as applied by if (...), !x, && and ||
Truthy(v) ==
    CASE v.t = "undefined" -> FALSE
      [] v.t = "null" -> FALSE
      [] v.t = "bool" -> v.b
      [] v.t = "num" -> v.n # 0
      [] v.t = "str" -> v.s # <<>>
      [] OTHER -> TRUE

\* item.k for the property names the formatter reads: an own property of an
\* object, undefined on arrays and primitives (the caller handles null/undefined)
GetProp(v, k) ==
    IF v.t = "obj" /\ \E i \in 1..Len(v.o) : v.o[i].k = k
    THEN v.o[CHOOSE i \in 1..Len(v.o) : v.o[i].k = k].v
    ELSE Undefined

----------------------------------------------------------------------------
(* Strings *)

\* the white space of String.prototype.trim and of \s that the alphabet holds
WhiteSpace == {" ", "\n", "\t", "\r"}

UpperCase == <<"A", "B", "C", "D", "E", "F", "G", "H", "I", "J", "K", "L", "M",
               "N", "O", "P", "Q", "R", "S", "T", "U", "V", "W", "X", "Y", "Z">>

LowerCase == <<"a", "b", "c", "d", "e", "f", "g", "h", "i", "j", "k", "l", "m",
               "n", "o", "p", "q", "r", "s", "t", "u", "v", "w", "x", "y", "z">>

\* the lowercase letter of each uppercase letter
LowerOf == [c \in {UpperCase[i] : i \in 1..Len(UpperCase)} |->
               LowerCase[CHOOSE i \in 1..Len(UpperCase) : UpperCase[i] = c]]

LowerChar(c) == IF c \in DOMAIN LowerOf THEN LowerOf[c] ELSE c

ToLowerCase(s) == [i \in 1..Len(s) |-> LowerChar(s[i])]

\* number of leading white-space characters of s from position i on
RECURSIVE SkipSpace(_, _)
SkipSpace(s, i) ==
    IF i <= Len(s) /\ s[i] \in WhiteSpace THEN SkipSpace(s, i + 1) ELSE i

RECURSIVE TrimEnd(_)
TrimEnd(s) ==
    IF s # <<>> /\ s[Len(s)] \in WhiteSpace THEN TrimEnd(SubSeq(s, 1, Len(s) - 1)) ELSE s

Trim(s) == TrimEnd(SubSeq(s, SkipSpace(s, 1), Len(s)))

StartsWith(s, p) == Len(s) >= Len(p) /\ SubSeq(s, 1, Len(p)) = p

\* s.split(/\n/) from position i on: the pieces of s between line feeds, at
\* least one
RECURSIVE SplitLines(_, _)
SplitLines(s, i) ==
    LET feeds == {j \in i..Len(s) : s[j] = "\n"}
        next == CHOOSE j \in feeds : \A k \in feeds : j <= k
    IN  IF feeds = {} THEN <<SubSeq(s, i, Len(s))>>
        ELSE <<SubSeq(s, i, next - 1)>> \o SplitLines(s, next + 1)

\* the concatenation of the strings parts[lo], ..., parts[hi]
RECURSIVE ConcatRange(_, _, _)
ConcatRange(parts, lo, hi) ==
    IF lo > hi THEN <<>>
    ELSE IF lo = hi THEN parts[lo]
    ELSE ConcatRange(parts, lo, (lo + hi) \div 2)
         \o ConcatRange(parts, ((lo + hi) \div 2) + 1, hi)

Concat(parts) == ConcatRange(parts, 1, Len(parts))

\* Array.prototype.join on strings
RECURSIVE Join(_, _)
Join(parts, sep) ==
    IF parts = <<>> THEN <<>>
    ELSE IF Len(parts) = 1 THEN parts[1]
    ELSE parts[1] \o sep \o Join(Tail(parts), sep)

Digits == <<"0", "1", "2", "3", "4", "5", "6", "7", "8", "9">>

\* Number::toString of a non-negative integer
RECURSIVE NatToString(_)
NatToString(n) ==
    IF n < 10 THEN <<Digits[n + 1]>>
    ELSE NatToString(n \div 10) \o <<Digits[(n % 10) + 1]>>

NumberToString(n) == IF n < 0 THEN <<"-">> \o NatToString(-n) ELSE NatToString(n)

\* ToString, as Array.prototype.join applies it to an element
RECURSIVE ToString(_)
ToString(v) ==
    CASE v.t = "undefined" -> <<>>
      [] v.t = "null" -> <<>>
      [] v.t = "bool" -> IF v.b THEN <<"t", "r", "u", "e">> ELSE <<"f", "a", "l", "s", "e">>
      [] v.t = "num" -> NumberToString(v.n)
      [] v.t = "str" -> v.s
      [] v.t = "arr" -> Join([i \in 1..Len(v.a) |-> ToString(v.a[i])], <<",">>)
      [] OTHER -> <<"[", "o", "b", "j", "e", "c", "t", " ", "O", "b", "j", "e", "c", "t", "]">>

----------------------------------------------------------------------------
(* JSON *)

\* QuoteChar without the escapes
QuoteCharRaw(c) == <<c>>

\* QuoteJSONString: the JSON text of a string
QuoteChar(c) ==
    CASE c = "\"" -> <<"\\", "\"">>
      [] c = "\\" -> <<"\\", "\\">>
      [] c = "\n" -> <<"\\", "n">>
      [] c = "\t" -> <<"\\", "t">>
      [] c = "\r" -> <<"\\", "r">>
      [] OTHER -> <<c>>

QuoteChars(s) == Concat([i \in 1..Len(s) |-> QuoteChar(s[i])])

Quote(s) == <<"\"">> \o QuoteChars(s) \o <<"\"">>

\* JSON.stringify(v) of a value other than undefined: a string
RECURSIVE JSONStringify(_)
JSONStringify(v) ==
    CASE v.t = "null" -> <<"n", "u", "l", "l">>
      [] v.t = "undefined" -> <<"n", "u", "l", "l">>    \* an undefined array element
      [] v.t = "bool" -> IF v.b THEN <<"t", "r", "u", "e">> ELSE <<"f", "a", "l", "s", "e">>
      [] v.t = "num" -> NumberToString(v.n)
      [] v.t = "str" -> Quote(v.s)
      [] v.t = "arr" ->
            <<"[">> \o Join([i \in 1..Len(v.a) |-> JSONStringify(v.a[i])], <<",">>) \o <<"]">>
      [] OTHER ->
            LET kept == SelectSeq(v.o, LAMBDA p : p.v.t # "undefined")
            IN  <<"{">>
                \o Join([i \in 1..Len(kept) |->
                            Quote(kept[i].k) \o <<":">> \o JSONStringify(kept[i].v)], <<",">>)
                \o <<"}">>

\* the white space of the JSON grammar
JSONSpace == {" ", "\n", "\t", "\r"}

RECURSIVE SkipJSONSpace(_, _)
SkipJSONSpace(s, i) ==
    IF i <= Len(s) /\ s[i] \in JSONSpace THEN SkipJSONSpace(s, i + 1) ELSE i

SyntaxError == [ok |-> FALSE]

Parsed(v, i) == [ok |-> TRUE, v |-> v, i |-> i]

IsDigit(c) == \E d \in 1..Len(Digits) : Digits[d] = c

DigitValue(c) == (CHOOSE d \in 1..Len(Digits) : Digits[d] = c) - 1

\* a JSON string from the character after its opening quote
RECURSIVE ParseJSONString(_, _, _)
ParseJSONString(s, i, acc) ==
    IF i > Len(s) THEN SyntaxError
    ELSE IF s[i] = "\"" THEN Parsed(Str(acc), i + 1)
    ELSE IF s[i] \in {"\n", "\t", "\r"} THEN SyntaxError
    ELSE IF s[i] = "\\" THEN
        IF i + 1 > Len(s) THEN SyntaxError
        ELSE CASE s[i + 1] = "\"" -> ParseJSONString(s, i + 2, Append(acc, "\""))
               [] s[i + 1] = "\\" -> ParseJSONString(s, i + 2, Append(acc, "\\"))
               [] s[i + 1] = "/" -> ParseJSONString(s, i + 2, Append(acc, "/"))
               [] s[i + 1] = "n" -> ParseJSONString(s, i + 2, Append(acc, "\n"))
               [] s[i + 1] = "t" -> ParseJSONString(s, i + 2, Append(acc, "\t"))
               [] s[i + 1] = "r" -> ParseJSONString(s, i + 2, Append(acc, "\r"))
               [] OTHER -> SyntaxError
    ELSE ParseJSONString(s, i + 1, Append(acc, s[i]))

\* the digits of a JSON integer from position i, n the value read so far
RECURSIVE ParseJSONDigits(_, _, _)
ParseJSONDigits(s, i, n) ==
    IF i <= Len(s) /\ IsDigit(s[i])
    THEN ParseJSONDigits(s, i + 1, 10 * n + DigitValue(s[i]))
    ELSE Parsed(Num(n), i)

\* a JSON number without fraction or exponent: 0, or a digit 1-9 and digits
ParseJSONNumber(s, i) ==
    IF s[i] = "0" THEN Parsed(Num(0), i + 1) ELSE ParseJSONDigits(s, i, 0)

\* SetProperty: a repeated key keeps its first position and takes the last value
SetProp(o, k, v) ==
    IF \E j \in 1..Len(o) : o[j].k = k
    THEN [j \in 1..Len(o) |-> IF o[j].k = k THEN Prop(k, v) ELSE o[j]]
    ELSE Append(o, Prop(k, v))

RECURSIVE ParseJSONValue(_, _)
RECURSIVE ParseJSONElements(_, _, _)
RECURSIVE ParseJSONMembers(_, _, _)

\* after the elements acc of an array: j is where "," or "]" is due
ElementEnd(s, j, acc) ==
    IF j > Len(s) THEN SyntaxError
    ELSE IF s[j] = "," THEN ParseJSONElements(s, j + 1, acc)
    ELSE IF s[j] = "]" THEN Parsed(Arr(acc), j + 1)
    ELSE SyntaxError

\* the element e read after the elements acc of an array
AfterElement(s, e, acc) ==
    IF ~e.ok THEN SyntaxError ELSE ElementEnd(s, SkipJSONSpace(s, e.i), Append(acc, e.v))

\* the elements of an array after "[" or ",": i is where the next value starts
ParseJSONElements(s, i, acc) == AfterElement(s, ParseJSONValue(s, i), acc)

\* after the members o of an object: j is where "," or "}" is due
MemberEnd(s, j, o) ==
    IF j > Len(s) THEN SyntaxError
    ELSE IF s[j] = "," THEN ParseJSONMembers(s, j + 1, o)
    ELSE IF s[j] = "}" THEN Parsed(Obj(o), j + 1)
    ELSE SyntaxError

\* the value m read for the key name after the members acc
AfterMember(s, name, m, acc) ==
    IF ~m.ok THEN SyntaxError
    ELSE MemberEnd(s, SkipJSONSpace(s, m.i), SetProp(acc, name, m.v))

\* after the key name: c is where ":" is due
MemberValue(s, name, c, acc) ==
    IF c > Len(s) \/ s[c] # ":" THEN SyntaxError
    ELSE AfterMember(s, name, ParseJSONValue(s, c + 1), acc)

\* the key read for the next member
AfterKey(s, key, acc) ==
    IF ~key.ok THEN SyntaxError
    ELSE MemberValue(s, key.v.s, SkipJSONSpace(s, key.i), acc)

\* the next member: k is where the opening quote of its key is due
MemberKey(s, k, acc) ==
    IF k > Len(s) \/ s[k] # "\"" THEN SyntaxError
    ELSE AfterKey(s, ParseJSONString(s, k + 1, <<>>), acc)

\* the members of an object after "{" or ",": i is where the next key starts
ParseJSONMembers(s, i, acc) == MemberKey(s, SkipJSONSpace(s, i), acc)

\* the literal word stands at position j of s
LiteralAt(s, j, word) ==
    j + Len(word) - 1 <= Len(s) /\ SubSeq(s, j, j + Len(word) - 1) = word

\* an array after "[": k is its first character that is no white space
ArrayFrom(s, k) ==
    IF k <= Len(s) /\ s[k] = "]" THEN Parsed(Arr(<<>>), k + 1)
    ELSE ParseJSONElements(s, k, <<>>)

\* an object after "{": k is its first character that is no white space
ObjectFrom(s, k) ==
    IF k <= Len(s) /\ s[k] = "}" THEN Parsed(Obj(<<>>), k + 1)
    ELSE ParseJSONMembers(s, k, <<>>)

\* the JSON value that starts at position j, which holds no white space
ValueAt(s, j) ==
    IF j > Len(s) THEN SyntaxError
    ELSE CASE s[j] = "[" -> ArrayFrom(s, SkipJSONSpace(s, j + 1))
           [] s[j] = "{" -> ObjectFrom(s, SkipJSONSpace(s, j + 1))
           [] s[j] = "\"" -> ParseJSONString(s, j + 1, <<>>)
           [] IsDigit(s[j]) -> ParseJSONNumber(s, j)
           [] LiteralAt(s, j, <<"t", "r", "u", "e">>) -> Parsed(Bool(TRUE), j + 4)
           [] LiteralAt(s, j, <<"f", "a", "l", "s", "e">>) -> Parsed(Bool(FALSE), j + 5)
           [] LiteralAt(s, j, <<"n", "u", "l", "l">>) -> Parsed(Null, j + 4)
           [] OTHER -> SyntaxError

\* a JSON value from position i, leading white space skipped
ParseJSONValue(s, i) == ValueAt(s, SkipJSONSpace(s, i))

\* the value r read from the start of s is followed by white space only
WholeText(s, r) == IF r.ok /\ SkipJSONSpace(s, r.i) > Len(s) THEN r ELSE SyntaxError

\* JSON.parse(s): the value of the text, or a SyntaxError
JSONParse(s) == WholeText(s, ParseJSONValue(s, 1))

----------------------------------------------------------------------------
(* TranscriptFormatter: the outcome of a call is a record with field threw *)

TypeError == [threw |-> TRUE]

Returned(v) == [threw |-> FALSE, v |-> v]

Message(speaker, text) == [speaker |-> speaker, text |-> text]

agentRoles ==
    << <<"a", "g", "e", "n", "t">>, <<"a", "i">>, <<"b", "o", "t">>, <<"a", "s", "i", "s", "t",
                "e", "n", "t", "e">>, <<"c", "h", "a", "t", "b", "o", "t">>, <<"a", "s", "s", "i",
                "s", "t", "a", "n", "t">>, <<"a", "g", "e", "n", "t", "e">> >>

\* normalizeRole with 'agente' left out of the list and 'customer' put in
normalizeRoleOtherList(role) ==
    IF role \in { <<"a", "g", "e", "n", "t">>, <<"a", "i">>, <<"b", "o", "t">>, <<"a", "s", "i",
                "s", "t", "e", "n", "t", "e">>, <<"c", "h", "a", "t", "b", "o", "t">>, <<"a", "s",
                "s", "i", "s", "t", "a", "n", "t">>,
                  <<"c", "u", "s", "t", "o", "m", "e", "r">> }
    THEN "agent" ELSE "user"

\* role is a string; the result is one of the two role tags
normalizeRole(role) ==
    IF \E i \in 1..Len(agentRoles) : agentRoles[i] = role THEN "agent" ELSE "user"

\* SerializeChar encoding the ampersand only
SerializeCharAmpOnly(c) == IF c = "&" THEN <<"&", "a", "m", "p", ";">> ELSE <<c>>

\* the serialization of a text node by innerHTML
SerializeChar(c) ==
    CASE c = "&" -> <<"&", "a", "m", "p", ";">>
      [] c = "<" -> <<"&", "l", "t", ";">>
      [] c = ">" -> <<"&", "g", "t", ";">>
      [] OTHER -> <<c>>

SerializeText(text) == Concat([i \in 1..Len(text) |-> SerializeChar(text[i])])

escapeHtml(text) == IF text = <<>> THEN <<>> ELSE SerializeText(text)

\* the first truthy of three values, the empty string when there is none
FirstTruthy(a, b, c) ==
    IF Truthy(a) THEN a ELSE IF Truthy(b) THEN b ELSE IF Truthy(c) THEN c ELSE Str(<<>>)

\* found.toLowerCase()
LowerCased(found) == IF IsString(found) THEN Returned(ToLowerCase(found.s)) ELSE TypeError

\* ItemSpeaker looking at speaker before role
ItemSpeakerSpeakerFirst(item) ==
    IF item.t \in {"null", "undefined"} THEN TypeError
    ELSE LowerCased(FirstTruthy(GetProp(item, <<"s", "p", "e", "a", "k", "e", "r">>), GetProp(item,
                <<"r", "o", "l", "e">>),
                                GetProp(item, <<"t", "y", "p", "e">>)))

\* the speaker of an entry: role, else speaker, else type, lowercased
ItemSpeaker(item) ==
    IF item.t \in {"null", "undefined"} THEN TypeError
    ELSE LowerCased(FirstTruthy(GetProp(item, <<"r", "o", "l", "e">>), GetProp(item, <<"s", "p",
                "e", "a", "k", "e", "r">>),
                                GetProp(item, <<"t", "y", "p", "e">>)))

\* w.word || w
WordOf(w) == IF Truthy(GetProp(w, <<"w", "o", "r", "d">>)) THEN GetProp(w, <<"w", "o", "r",
            "d">>) ELSE w

\* item.words.map(function (w) { return w.word || w; }).join(' ')
WordsText(words) ==
    IF ~IsArray(words) THEN TypeError
    ELSE IF \E i \in 1..Len(words.a) : words.a[i].t \in {"null", "undefined"} THEN TypeError
    ELSE Returned(Str(Join([i \in 1..Len(words.a) |-> ToString(WordOf(words.a[i]))], <<" ">>)))

\* the text of an entry: content, else text, else message, else the words
ItemText(item) ==
    IF Truthy(GetProp(item, <<"c", "o", "n", "t", "e", "n", "t">>)) THEN Returned(GetProp(item,
                <<"c", "o", "n", "t", "e", "n", "t">>))
    ELSE IF Truthy(GetProp(item, <<"t", "e", "x", "t">>)) THEN Returned(GetProp(item, <<"t", "e",
                "x", "t">>))
    ELSE IF Truthy(GetProp(item, <<"m", "e", "s", "s", "a", "g",
                "e">>)) THEN Returned(GetProp(item, <<"m", "e", "s", "s", "a", "g", "e">>))
    ELSE IF Truthy(GetProp(item, <<"w", "o", "r", "d", "s">>)) THEN WordsText(GetProp(item, <<"w",
                "o", "r", "d", "s">>))
    ELSE Returned(Str(<<>>))

\* if (text && text.trim()) messages.push(...) for the resolved speaker and text
PushTurn(msgs, speaker, text) ==
    IF text.threw THEN TypeError
    ELSE IF ~Truthy(text.v) THEN Returned(msgs)
    ELSE IF ~IsString(text.v) THEN TypeError
    ELSE IF Trim(text.v.s) = <<>> THEN Returned(msgs)
    ELSE Returned(Append(msgs, Message(normalizeRole(speaker), Trim(text.v.s))))

\* the rest of a pass of the loop, the speaker resolved
StepFrom(msgs, item, speaker) ==
    IF speaker.threw THEN TypeError ELSE PushTurn(msgs, speaker.v, ItemText(item))

\* RetellStep pushing the text as resolved, without trimming it
RetellStepUntrimmed(msgs, item) ==
    LET speaker == ItemSpeaker(item)
        text == ItemText(item)
    IN  IF speaker.threw \/ text.threw THEN TypeError
        ELSE IF ~Truthy(text.v) THEN Returned(msgs)
        ELSE IF ~IsString(text.v) THEN TypeError
        ELSE Returned(Append(msgs, Message(normalizeRole(speaker.v), text.v.s)))

\* one pass of the loop of parseRetellArray: the messages with the entry's turn
\* pushed, when it has one
RetellStep(msgs, item) == StepFrom(msgs, item, ItemSpeaker(item))

RECURSIVE RetellLoop(_, _, _)

\* the passes after the i-th one, whose outcome is step
RetellNext(transcriptArray, i, step) ==
    IF step.threw THEN TypeError ELSE RetellLoop(transcriptArray, i + 1, step.v)

RetellLoop(transcriptArray, i, msgs) ==
    IF i > Len(transcriptArray) THEN Returned(msgs)
    ELSE RetellNext(transcriptArray, i, RetellStep(msgs, transcriptArray[i]))

parseRetellArray(transcriptArray) == RetellLoop(transcriptArray, 1, <<>>)

\* the labels of speakerRegex, which ignores case
speakerLabels ==
    << <<"a", "g", "e", "n", "t">>, <<"u", "s", "e", "r">>, <<"a", "i">>, <<"c", "u", "s", "t",
                "o", "m", "e", "r">>, <<"b", "o", "t">>, <<"c", "l", "i", "e", "n", "t", "e">>,
                <<"a", "s", "i", "s", "t", "e", "n", "t", "e">>,
       <<"c", "h", "a", "t", "b", "o", "t">>, <<"h", "u", "m", "a", "n">>, <<"h", "u", "m", "a",
                   "n", "o">>, <<"a", "s", "s", "i", "s", "t", "a", "n", "t">>, <<"a", "g", "e",
                   "n", "t", "e">> >>

\* the labels of speakerRegex that the lowercased line starts with, colon included
MatchingLabels(lower) ==
    {i \in 1..Len(speakerLabels) : StartsWith(lower, speakerLabels[i] \o <<":">>)}

\* the match of the first of the labels hits: the lowercased label and the
\* length of the match, which takes the label, the colon and the white space
MatchOf(line, hits) ==
    IF hits = {} THEN [matched |-> FALSE]
    ELSE [matched |-> TRUE,
          label |-> speakerLabels[CHOOSE i \in hits : \A j \in hits : i <= j],
          length |-> SkipSpace(line,
                        Len(speakerLabels[CHOOSE i \in hits : \A j \in hits : i <= j]) + 2) - 1]

\* line.match(speakerRegex)
SpeakerMatch(line) == MatchOf(line, MatchingLabels(ToLowerCase(line)))

\* Flush pushing the buffered message of a labelled turn only
FlushLabelledOnly(msgs, currentSpeaker, currentMessage) ==
    IF Trim(currentMessage) # <<>> /\ currentSpeaker # <<>>
    THEN Append(msgs, Message(normalizeRole(currentSpeaker), Trim(currentMessage)))
    ELSE msgs

\* the messages with the buffered message pushed when it is not blank
Flush(msgs, currentSpeaker, currentMessage) ==
    IF Trim(currentMessage) # <<>>
    THEN Append(msgs, Message(normalizeRole(currentSpeaker), Trim(currentMessage)))
    ELSE msgs

RECURSIVE TextLoop(_, _, _, _, _)

\* TextLine giving the buffered message to the speaker of the line that ends it
TextLineLabelFirst(lines, i, msgs, currentSpeaker, currentMessage, line, speakerMatch) ==
    IF speakerMatch.matched
    THEN TextLoop(lines, i + 1, Flush(msgs, speakerMatch.label, currentMessage),
                  speakerMatch.label, SubSeq(line, speakerMatch.length + 1, Len(line)))
    ELSE TextLoop(lines, i + 1, msgs, currentSpeaker,
                  IF currentMessage # <<>> THEN currentMessage \o <<" ">> \o line ELSE line)

\* TextLine starting a turn of its own with every line
TextLinePerLine(lines, i, msgs, currentSpeaker, currentMessage, line, speakerMatch) ==
    IF speakerMatch.matched
    THEN TextLoop(lines, i + 1, Flush(msgs, currentSpeaker, currentMessage),
                  speakerMatch.label, SubSeq(line, speakerMatch.length + 1, Len(line)))
    ELSE TextLoop(lines, i + 1, Flush(msgs, currentSpeaker, currentMessage),
                  currentSpeaker, line)

\* the pass of the loop of parseTextTranscript for the non-blank line of index i
TextLine(lines, i, msgs, currentSpeaker, currentMessage, line, speakerMatch) ==
    IF speakerMatch.matched
    THEN TextLoop(lines, i + 1, Flush(msgs, currentSpeaker, currentMessage),
                  speakerMatch.label, SubSeq(line, speakerMatch.length + 1, Len(line)))
    ELSE TextLoop(lines, i + 1, msgs, currentSpeaker,
                  IF currentMessage # <<>> THEN currentMessage \o <<" ">> \o line ELSE line)

TextLoop(lines, i, msgs, currentSpeaker, currentMessage) ==
    IF i > Len(lines) THEN Flush(msgs, currentSpeaker, currentMessage)
    ELSE IF Trim(lines[i]) = <<>>
    THEN TextLoop(lines, i + 1, msgs, currentSpeaker, currentMessage)
    ELSE TextLine(lines, i, msgs, currentSpeaker, currentMessage, Trim(lines[i]),
                  SpeakerMatch(Trim(lines[i])))

\* parseTextTranscript dropping what is buffered before the first label
parseTextTranscriptFromFirstLabel(text) ==
    LET lines == SplitLines(text, 1)
        labelled == {i \in 1..Len(lines) : SpeakerMatch(Trim(lines[i])).matched}
    IN  IF labelled = {} THEN <<>>
        ELSE TextLoop(lines, CHOOSE i \in labelled : \A j \in labelled : i <= j,
                      <<>>, <<>>, <<>>)

parseTextTranscript(text) == TextLoop(SplitLines(text, 1), 1, <<>>, <<>>, <<>>)

\* BubbleHtml with the two display labels exchanged
BubbleHtmlSwappedLabels(msg) ==
    LET isAgent == msg.speaker = "agent"
        bubbleClass == IF isAgent THEN <<"t", "r", "a", "n", "s", "c", "r", "i", "p", "t", "-",
                    "b", "u", "b", "b", "l", "e", " ", "a", "g", "e", "n", "t">>
                       ELSE <<"t", "r", "a", "n", "s", "c", "r", "i", "p", "t", "-", "b", "u", "b",
                                   "b", "l", "e", " ", "u", "s", "e", "r">>
        speakerLabel == IF isAgent THEN <<"C", "l", "i", "e", "n", "t", "e">> ELSE <<"C", "h", "a",
                    "t", "b", "o", "t">>
    IN  <<"<", "d", "i", "v", " ", "c", "l", "a", "s", "s", "=", "\"">> \o bubbleClass \o <<"\"",
                ">">>
        \o <<"<", "s", "p", "a", "n", " ", "c", "l", "a", "s", "s", "=", "\"", "t", "r", "a", "n",
                    "s", "c", "r", "i", "p", "t", "-", "s", "p", "e", "a", "k", "e", "r", "\"",
                    ">">> \o speakerLabel \o <<"<", "/", "s", "p", "a", "n", ">">>
        \o <<"<", "p", " ", "c", "l", "a", "s", "s", "=", "\"", "t", "r", "a", "n", "s", "c", "r",
                    "i", "p", "t", "-", "t", "e", "x", "t", "\"",
                    ">">> \o escapeHtml(msg.text) \o <<"<", "/", "p", ">">>
        \o <<"<", "/", "d", "i", "v", ">">>

\* one bubble: the class and the label of the speaker, and the escaped text
BubbleHtml(msg) ==
    LET isAgent == msg.speaker = "agent"
        bubbleClass == IF isAgent THEN <<"t", "r", "a", "n", "s", "c", "r", "i", "p", "t", "-",
                    "b", "u", "b", "b", "l", "e", " ", "a", "g", "e", "n", "t">>
                       ELSE <<"t", "r", "a", "n", "s", "c", "r", "i", "p", "t", "-", "b", "u", "b",
                                   "b", "l", "e", " ", "u", "s", "e", "r">>
        speakerLabel == IF isAgent THEN <<"C", "h", "a", "t", "b", "o", "t">> ELSE <<"C", "l", "i",
                    "e", "n", "t", "e">>
    IN  <<"<", "d", "i", "v", " ", "c", "l", "a", "s", "s", "=", "\"">> \o bubbleClass \o <<"\"",
                ">">>
        \o <<"<", "s", "p", "a", "n", " ", "c", "l", "a", "s", "s", "=", "\"", "t", "r", "a", "n",
                    "s", "c", "r", "i", "p", "t", "-", "s", "p", "e", "a", "k", "e", "r", "\"",
                    ">">> \o speakerLabel \o <<"<", "/", "s", "p", "a", "n", ">">>
        \o <<"<", "p", " ", "c", "l", "a", "s", "s", "=", "\"", "t", "r", "a", "n", "s", "c", "r",
                    "i", "p", "t", "-", "t", "e", "x", "t", "\"",
                    ">">> \o escapeHtml(msg.text) \o <<"<", "/", "p", ">">>
        \o <<"<", "/", "d", "i", "v", ">">>

RECURSIVE BubblesHtml(_, _)
BubblesHtml(msgs, i) ==
    IF i > Len(msgs) THEN <<>> ELSE BubbleHtml(msgs[i]) \o BubblesHtml(msgs, i + 1)

generateConversationHtml(msgs) ==
    <<"<", "d", "i", "v", " ", "c", "l", "a", "s", "s", "=", "\"", "t", "r", "a", "n", "s", "c",
                "r", "i", "p", "t", "-", "c", "o", "n", "v", "e", "r", "s", "a", "t", "i", "o",
                "n", "\"", ">">> \o BubblesHtml(msgs, 1) \o <<"<", "/", "d", "i", "v", ">">>

\* catch (e) {}: no messages when the try block threw
Caught(found) == IF found.threw THEN <<>> ELSE found.v

\* the messages of the value JSON.parse gave
MessagesOfParsed(parsed) ==
    IF ~parsed.ok THEN TypeError
    ELSE IF IsArray(parsed.v) THEN parseRetellArray(parsed.v.a)
    ELSE IF Truthy(GetProp(parsed.v, <<"t", "r", "a", "n", "s", "c", "r", "i", "p", "t">>))
            /\ IsArray(GetProp(parsed.v, <<"t", "r", "a", "n", "s", "c", "r", "i", "p", "t">>))
    THEN parseRetellArray(GetProp(parsed.v, <<"t", "r", "a", "n", "s", "c", "r", "i", "p", "t">>).a)
    ELSE Returned(<<>>)

\* TryParseJSON without the branch for an object with a transcript array
TryParseJSONArrayOnly(trimmed) ==
    LET parsed == JSONParse(trimmed)
    IN  IF parsed.ok /\ IsArray(parsed.v) THEN Caught(parseRetellArray(parsed.v.a)) ELSE <<>>

\* the try block of format: the messages of the decoded array, none when
\* JSON.parse or parseRetellArray throws or the value has neither shape
TryParseJSON(trimmed) == Caught(MessagesOfParsed(JSONParse(trimmed)))

\* the messages decoded from the JSON text, if it looks like one
DecodedMessages(trimmed) ==
    IF StartsWith(trimmed, <<"[">>) \/ StartsWith(trimmed, <<"{">>)
    THEN TryParseJSON(trimmed) ELSE <<>>

\* if (messages.length === 0) messages = parseTextTranscript(trimmed)
OrTextMessages(trimmed, decoded) ==
    IF Len(decoded) = 0 THEN parseTextTranscript(trimmed) ELSE decoded

\* the messages of the trimmed string
TrimmedMessages(trimmed) == OrTextMessages(trimmed, DecodedMessages(trimmed))

\* StringMessages parsing as text only what does not look like JSON
StringMessagesTextOrJSON(s) ==
    LET trimmed == Trim(s)
    IN  IF StartsWith(trimmed, <<"[">>) \/ StartsWith(trimmed, <<"{">>)
        THEN TryParseJSON(trimmed) ELSE parseTextTranscript(trimmed)

\* the messages format gets from a string
StringMessages(s) == TrimmedMessages(Trim(s))

PlainHtml(plainText) == <<"<", "d", "i", "v", " ", "c", "l", "a", "s", "s", "=", "\"", "t", "r",
            "a", "n", "s", "c", "r", "i", "p", "t", "-", "p", "l", "a", "i", "n", "\"",
            ">">> \o escapeHtml(plainText) \o <<"<", "/", "d", "i", "v", ">">>

\* the messages format gets from a truthy value
ParsedMessages(value) ==
    IF IsArray(value) THEN parseRetellArray(value.a)
    ELSE IF IsString(value) THEN Returned(StringMessages(value.s))
    ELSE Returned(<<>>)

\* the end of format, parsed the outcome of its parsing
Rendered(value, parsed) ==
    IF parsed.threw THEN [threw |-> TRUE, messages |-> <<>>, v |-> Undefined]
    ELSE IF Len(parsed.v) = 0
    THEN [threw |-> FALSE, messages |-> <<>>,
          v |-> Str(PlainHtml(IF IsString(value) THEN value.s ELSE JSONStringify(value)))]
    ELSE [threw |-> FALSE, messages |-> parsed.v,
          v |-> Str(generateConversationHtml(parsed.v))]

\* format from its second statement on: value is truthy
FormatTruthy(value) == Rendered(value, ParsedMessages(value))

\* format without its first statement
formatWithoutGuard(value) == FormatTruthy(value)

\* format(transcript): threw, or the messages it built and the string it returned
format(value) ==
    IF ~Truthy(value) THEN [threw |-> FALSE, messages |-> <<>>, v |-> Str(<<>>)]
    ELSE FormatTruthy(value)

----------------------------------------------------------------------------
(* The transcripts format is called with: the transcript field of a call of *)
(* the calls API is any JSON value, or is missing                           *)

\* all sequences of at most n elements of S
SeqsUpTo(S, n) == UNION {[1..k -> S] : k \in 0..n}

EntryAgentHola == Obj(<<Prop(<<"r", "o", "l", "e">>, Str(<<"a", "g", "e", "n", "t">>)), Prop(<<"c",
            "o", "n", "t", "e", "n", "t">>, Str(<<"H", "o", "l", "a">>))>>)

EntryUserAyuda ==
    Obj(<<Prop(<<"r", "o", "l", "e">>, Str(<<"u", "s", "e", "r">>)), Prop(<<"c", "o", "n", "t",
                "e", "n", "t">>, Str(<<"N", "e", "c", "e", "s", "i", "t", "o", " ", "a", "y", "u",
                "d", "a">>))>>)

EntryBotHi == Obj(<<Prop(<<"s", "p", "e", "a", "k", "e", "r">>, Str(<<"B", "o", "t">>)),
            Prop(<<"t", "e", "x", "t">>, Str(<<"H", "i">>))>>)

EntryWords ==
    Obj(<<Prop(<<"t", "y", "p", "e">>, Str(<<"a", "g", "e", "n", "t">>)),
          Prop(<<"w", "o", "r", "d", "s">>, Arr(<<Obj(<<Prop(<<"w", "o", "r", "d">>, Str(<<"G",
                      "o", "o", "d">>))>>),
                               Obj(<<Prop(<<"w", "o", "r", "d">>, Str(<<"m", "o", "r", "n", "i",
                                           "n", "g">>))>>)>>))>>)

EntryRoleAndSpeaker ==
    Obj(<<Prop(<<"r", "o", "l", "e">>, Str(<<"u", "s", "e", "r">>)), Prop(<<"s", "p", "e", "a",
                "k", "e", "r">>, Str(<<"a", "g", "e", "n", "t">>)),
          Prop(<<"m", "e", "s", "s", "a", "g", "e">>, Str(<<" ", "<", "b", ">", "o", "k", "<", "/",
                      "b", ">", " ">>))>>)

EntryBlank == Obj(<<Prop(<<"r", "o", "l", "e">>, Str(<<"a", "g", "e", "n", "t">>)), Prop(<<"c",
            "o", "n", "t", "e", "n", "t">>, Str(<<" ", " ">>))>>)

EntryNoText == Obj(<<Prop(<<"s", "p", "e", "a", "k", "e", "r">>, Str(<<"a", "g", "e", "n",
            "t">>))>>)

EntryNoSpeaker == Obj(<<Prop(<<"t", "e", "x", "t">>, Str(<<"a", " ", "&", " ", "b">>))>>)

EntryNumberRole == Obj(<<Prop(<<"r", "o", "l", "e">>, Num(5)), Prop(<<"c", "o", "n", "t", "e", "n",
            "t">>, Str(<<"x">>))>>)

EntryNumberContent == Obj(<<Prop(<<"r", "o", "l", "e">>, Str(<<"a", "g", "e", "n", "t">>)),
            Prop(<<"c", "o", "n", "t", "e", "n", "t">>, Num(5))>>)

EntryStringWords == Obj(<<Prop(<<"w", "o", "r", "d", "s">>, Str(<<"h", "o", "l", "a">>))>>)

EntryNullWord == Obj(<<Prop(<<"w", "o", "r", "d", "s">>, Arr(<<Null>>))>>)

EntryRawWords ==
    Obj(<<Prop(<<"w", "o", "r", "d", "s">>, Arr(<<Str(<<"a">>), Num(7), Obj(<<Prop(<<"w", "o", "r",
                "d">>, Str(<<>>))>>)>>))>>)

EntryEmptyRole ==
    Obj(<<Prop(<<"r", "o", "l", "e">>, Str(<<>>)), Prop(<<"s", "p", "e", "a", "k", "e", "r">>,
                Str(<<"A", "g", "e", "n", "t">>)),
          Prop(<<"c", "o", "n", "t", "e", "n", "t">>, Str(<<>>)), Prop(<<"t", "e", "x", "t">>,
                      Str(<<"h", "o", "l", "a">>))>>)

EntryTypeAndMessage ==
    Obj(<<Prop(<<"t", "y", "p", "e">>, Str(<<"A", "I">>)), Prop(<<"m", "e", "s", "s", "a", "g",
                "e">>, Str(<<"u", "n", "o">>)),
          Prop(<<"w", "o", "r", "d", "s">>, Arr(<<Str(<<"d", "o", "s">>)>>))>>)

EntryEmptyWord ==
    Obj(<<Prop(<<"s", "p", "e", "a", "k", "e", "r">>, Str(<<"u", "s", "e", "r">>)),
          Prop(<<"w", "o", "r", "d", "s">>, Arr(<<Obj(<<Prop(<<"w", "o", "r", "d">>, Str(<<"G",
                      "o", "o", "d">>))>>),
                               Obj(<<Prop(<<"w", "o", "r", "d">>, Str(<<>>))>>)>>))>>)

\* the entries the enumerated arrays are made of
Entries ==
    { EntryAgentHola, EntryUserAyuda, EntryBotHi, EntryWords, EntryRoleAndSpeaker,
      EntryBlank, EntryNoText, EntryNoSpeaker, Null, Num(5), EntryNumberRole,
      EntryStringWords }

Arrays ==
    {Arr(a) : a \in SeqsUpTo(Entries, MaxEntries)}
    \cup {Arr(<<e>>) : e \in {EntryNumberContent, EntryNullWord, EntryRawWords, EntryEmptyRole,
                              EntryTypeAndMessage, EntryEmptyWord, Str(<<"A", "g", "e", "n", "t",
                                          ":", " ", "h", "i">>),
                              Arr(<<EntryAgentHola>>), Bool(TRUE)}}

\* the labels a role field or a line prefix is given in the enumerated inputs
RoleLabels ==
    { <<"a", "g", "e", "n", "t">>, <<"u", "s", "e", "r">>, <<"a", "i">>, <<"c", "u", "s", "t", "o",
                "m", "e", "r">>, <<"b", "o", "t">>, <<"c", "l", "i", "e", "n", "t", "e">>, <<"a",
                "s", "i", "s", "t", "e", "n", "t", "e">>,
      <<"c", "h", "a", "t", "b", "o", "t">>, <<"h", "u", "m", "a", "n">>, <<"h", "u", "m", "a",
                  "n", "o">>, <<"a", "s", "s", "i", "s", "t", "a", "n", "t">>, <<"a", "g", "e",
                  "n", "t", "e">>, <<"A", "g", "e", "n", "t">>, <<"A", "I">>,
      <<"s", "y", "s", "t", "e", "m">>, <<"a", "g", "e", "n", "t", "s">> }

RoleEntry(label) == Arr(<<Obj(<<Prop(<<"r", "o", "l", "e">>, Str(label)), Prop(<<"c", "o", "n",
            "t", "e", "n", "t">>, Str(<<"x">>))>>)>>)

RoleLine(label) == Str(label \o <<":", " ", "x">>)

\* the lines the enumerated plain texts are made of
TextLines ==
    { <<"A", "g", "e", "n", "t", ":", " ", "H", "e", "l", "l", "o", " ", "t", "h", "e", "r", "e">>,
                <<"U", "s", "e", "r", ":", " ", "I", " ", "n", "e", "e", "d", " ", "h", "e", "l",
                "p">>, <<"A", "g", "e", "n", "t", ":", " ", "S", "u", "r", "e", ",", " ", "o", "n",
                "e", " ", "m", "o", "m", "e", "n", "t">>,
      <<"h", "o", "l", "a", " ", "<", "s", "c", "r", "i", "p", "t", ">">>, <<>>, <<"B", "o", "t",
                  ":">>, <<" ", " ", "A", "G", "E", "N", "T", "E", ":", " ", " ", "a", " ", "&",
                  " ", "b", " ">>, <<"{">> }

Texts == {Str(Join(ls, <<"\n">>)) : ls \in SeqsUpTo(TextLines, MaxLines)}

ScenarioA ==
    Str(<<"[", "{", "\"", "r", "o", "l", "e", "\"", ":", "\"", "a", "g", "e", "n", "t", "\"", ",",
                "\"", "c", "o", "n", "t", "e", "n", "t", "\"", ":", "\"", "H", "o", "l", "a", "\"",
                "}", ",", "{", "\"", "r", "o", "l", "e", "\"", ":", "\"", "u", "s", "e", "r", "\"",
                ",", "\"", "c", "o", "n", "t", "e", "n", "t", "\"", ":", "\"", "N", "e", "c", "e",
                "s", "i", "t", "o", " ", "a", "y", "u", "d", "a", "\"", "}", "]">>)

ScenarioB == Str(<<"{", "\"", "t", "r", "a", "n", "s", "c", "r", "i", "p", "t", "\"", ":", "[",
            "{", "\"", "s", "p", "e", "a", "k", "e", "r", "\"", ":", "\"", "B", "o", "t", "\"",
            ",", "\"", "t", "e", "x", "t", "\"", ":", "\"", "H", "i", "\"", "}", "]", "}">>)

ScenarioC == Str(<<"A", "g", "e", "n", "t", ":", " ", "H", "e", "l", "l", "o", " ", "t", "h", "e",
            "r", "e", "\n", "U", "s", "e", "r", ":", " ", "I", " ", "n", "e", "e", "d", " ", "h",
            "e", "l", "p", "\n", "A", "g", "e", "n", "t", ":", " ", "S", "u", "r", "e", ",", " ",
            "o", "n", "e", " ", "m", "o", "m", "e", "n", "t">>)

ScenarioD == Str(<<"{", "\"", "f", "o", "o", "\"", ":", "\"", "b", "a", "r", "\"", "}">>)

ScenarioE == Str(<<"[", "{", "\"", "t", "y", "p", "e", "\"", ":", "\"", "a", "g", "e", "n", "t",
            "\"", ",", "\"", "w", "o", "r", "d", "s", "\"", ":", "[", "{", "\"", "w", "o", "r",
            "d", "\"", ":", "\"", "G", "o", "o", "d", "\"", "}", ",", "{", "\"", "w", "o", "r",
            "d", "\"", ":", "\"", "m", "o", "r", "n", "i", "n", "g", "\"", "}", "]", "}", "]">>)

\* strings that start like JSON and are not
Malformed ==
    { Str(<<"[", "{", "\"", "r", "o", "l", "e", "\"", ":", "\"", "a", "g", "e", "n", "t", "\"",
                ",", "\"", "c", "o", "n", "t", "e", "n", "t", "\"", ":", "\"", "H", "o", "l", "a",
                "\"", "}">>), Str(<<"{", "\"", "t", "r", "a", "n", "s", "c", "r", "i", "p", "t",
                "\"", ":", "[", "}">>),
      Str(<<"[", "A", "g", "e", "n", "t", ":", " ", "h", "i", "]">>), Str(<<"{", "\n", "A", "g",
                  "e", "n", "t", ":", " ", "h", "i", "\n", "U", "s", "e", "r", ":", " ", "}">>),
                  Str(<<"[", "1", ",", "]">>),
      Str(<<" ", " ", "{", "\"", "r", "o", "l", "e", "\"", ":", " ", "a", "g", "e", "n", "t", "}",
                  "\n">>) }

\* JSON texts with white space, and JSON values of other shapes
OtherJSON ==
    { Str(<<" ", "[", " ", "{", "\"", "r", "o", "l", "e", "\"", " ", ":", " ", "\"", "a", "g", "e",
                "n", "t", "\"", ",", " ", "\"", "c", "o", "n", "t", "e", "n", "t", "\"", " ", ":",
                " ", "\"", "H", "o", "l", "a", "\"", "}", " ", "]", "\n">>),
      Str(<<"\n", "{", "\"", "t", "r", "a", "n", "s", "c", "r", "i", "p", "t", "\"", ":", "\t",
                  "[", "{", "\"", "s", "p", "e", "a", "k", "e", "r", "\"", ":", "\"", "B", "o",
                  "t", "\"", ",", "\"", "t", "e", "x", "t", "\"", ":", "\"", "H", "i", "\\", "n",
                  "t", "h", "e", "r", "e", "\"", "}", "]", "}", " ">>),
      Str(<<"{", "\"", "t", "r", "a", "n", "s", "c", "r", "i", "p", "t", "\"", ":", "\"", "A", "g",
                  "e", "n", "t", ":", " ", "h", "i", "\"", "}">>), Str(<<"{", "\"", "t", "r", "a",
                  "n", "s", "c", "r", "i", "p", "t", "\"", ":", "n", "u", "l", "l", "}">>),
      Str(<<"{", "\"", "r", "o", "l", "e", "\"", ":", "\"", "a", "g", "e", "n", "t", "\"", ",",
                  "\"", "c", "o", "n", "t", "e", "n", "t", "\"", ":", "\"", "H", "o", "l", "a",
                  "\"", "}">>), Str(<<"[", "[", "{", "\"", "r", "o", "l", "e", "\"", ":", "\"",
                  "a", "g", "e", "n", "t", "\"", ",", "\"", "c", "o", "n", "t", "e", "n", "t",
                  "\"", ":", "\"", "H", "o", "l", "a", "\"", "}", "]", "]">>),
      Str(<<"{", "}">>), Str(<<"\"", "A", "g", "e", "n", "t", ":", " ", "h", "i", "\"">>),
                  Str(<<"5">>), Str(<<"n", "u", "l", "l">>), Str(<<" ", "\n">>) }

EntryScript ==
    Obj(<<Prop(<<"r", "o", "l", "e">>, Str(<<"a", "g", "e", "n", "t">>)), Prop(<<"c", "o", "n",
                "t", "e", "n", "t">>, Str(<<"<", "s", "c", "r", "i", "p", "t", ">", "a", "l", "e",
                "r", "t", "(", "1", ")", "<", "/", "s", "c", "r", "i", "p", "t", ">">>))>>)

EntryQuotes == Obj(<<Prop(<<"t", "e", "x", "t">>, Str(<<"i", "t", "'", "s", " ", "<", "b", ">",
            "\"", "o", "k", "\"", "<", "/", "b", ">", " ", "&", " ", "m", "o", "r", "e">>))>>)

EntryScriptSpeaker == Obj(<<Prop(<<"s", "p", "e", "a", "k", "e", "r">>, Str(<<"<", "s", "c", "r",
            "i", "p", "t", ">">>))>>)

\* transcripts whose text holds markup, quotes and entities
Marked ==
    { Arr(<<EntryScript>>), Str(JSONStringify(Arr(<<EntryScript>>))),
      Arr(<<EntryQuotes>>), Arr(<<EntryScriptSpeaker>>),
      Obj(<<Prop(<<"f", "o", "o">>, Str(<<"<", "s", "c", "r", "i", "p", "t", ">">>))>>),
      Str(<<"U", "s", "e", "r", ":", " ", "<", "s", "c", "r", "i", "p", "t", ">", "a", "l", "e",
                  "r", "t", "(", "1", ")", "<", "/", "s", "c", "r", "i", "p", "t", ">">>),
                  Str(<<"A", "g", "e", "n", "t", ":", " ", "d", "i", "j", "o", " ", "\"", "h", "o",
                  "l", "a", "\"">>),
      Str(<<"a", " ", "&", "a", "m", "p", ";", " ", "b">>) }

Inputs ==
    Arrays
    \cup {Str(JSONStringify(a)) : a \in Arrays}
    \cup {Str(JSONStringify(Obj(<<Prop(<<"t", "r", "a", "n", "s", "c", "r", "i", "p", "t">>,
                a)>>))) : a \in Arrays}
    \cup {Obj(<<Prop(<<"t", "r", "a", "n", "s", "c", "r", "i", "p", "t">>,
                a)>>) : a \in {Arr(<<>>), Arr(<<EntryAgentHola>>)}}
    \cup {RoleEntry(l) : l \in RoleLabels}
    \cup {RoleLine(l) : l \in RoleLabels}
    \cup Texts
    \cup {ScenarioA, ScenarioB, ScenarioC, ScenarioD, ScenarioE}
    \cup Malformed
    \cup Marked
    \cup OtherJSON
    \cup {Undefined, Null, Str(<<>>), Num(0), Bool(FALSE)}
    \cup {Num(5), Bool(TRUE), Obj(<<>>), Obj(<<Prop(<<"f", "o", "o">>, Str(<<"b", "a", "r">>))>>)}

----------------------------------------------------------------------------
(* The login flow: configuration, rate limiter, validator and authentication *)

MAX_LOGIN_ATTEMPTS == 5

LOCKOUT_DURATION_MINUTES == 15

USERNAME_MIN_LENGTH == 3

USERNAME_MAX_LENGTH == 50

PASSWORD_MIN_LENGTH == 4

SESSION_DURATION_MINUTES == 60

\* AppConfig.DEV_MODE as the repository sets it
DEV_MODE == [BYPASS_LOGIN |-> TRUE, BYPASS_VALIDATION |-> TRUE]

\* AppConfig.DEV_MODE with both flags changed to false, as for production
DEV_MODE_OFF == [BYPASS_LOGIN |-> FALSE, BYPASS_VALIDATION |-> FALSE]

\* the most clock steps of a behaviour, and the most requests in flight
MaxTicks == 8

MaxPending == 2

\* lockoutDurationMs
LockoutDurationMs == LOCKOUT_DURATION_MINUTES * 60 * 1000

\* the time between two readings of the clock
TimeStep == LockoutDurationMs \div 2

\* sessionDurationMs
SessionDurationMs == SESSION_DURATION_MINUTES * 60 * 1000

\* an attempt state object
AttemptState(count, lockoutUntil) ==
    Obj(<<Prop(<<"c", "o", "u", "n", "t">>, count), Prop(<<"l", "o", "c", "k", "o", "u", "t", "U",
                "n", "t", "i", "l">>, lockoutUntil)>>)

\* try { return JSON.parse(..) } catch { return fallback }
ParsedOr(parsed, fallback) == IF parsed.ok THEN parsed.v ELSE fallback

\* RateLimiter.getAttemptState: the state stored in the item raw
getAttemptState(raw) ==
    IF raw = Null THEN AttemptState(Num(0), Null)
    ELSE ParsedOr(JSONParse(raw.s), AttemptState(Num(0), Null))

\* RateLimiter.saveAttemptState: the item that holds attemptState
saveAttemptState(attemptState) == Str(JSONStringify(attemptState))

\* Math.ceil(remainingMilliseconds / 60000)
CeilMinutes(remainingMilliseconds) == (remainingMilliseconds + 59999) \div 60000

\* LockoutOf keeping the stored state when the lockout is over
LockoutOfKeepsState(raw, lockoutUntil, t) ==
    IF lockoutUntil = Null
    THEN [isLocked |-> FALSE, remainingMinutes |-> 0, store |-> raw]
    ELSE IF lockoutUntil.t = "num" /\ t < lockoutUntil.n
    THEN [isLocked |-> TRUE, remainingMinutes |-> CeilMinutes(lockoutUntil.n - t),
          store |-> raw]
    ELSE [isLocked |-> FALSE, remainingMinutes |-> 0, store |-> raw]

\* LockoutOf ending the lockout one clock step early
LockoutOfEarlyEnd(raw, lockoutUntil, t) ==
    IF lockoutUntil = Null
    THEN [isLocked |-> FALSE, remainingMinutes |-> 0, store |-> raw]
    ELSE IF lockoutUntil.t = "num" /\ t + TimeStep < lockoutUntil.n
    THEN [isLocked |-> TRUE, remainingMinutes |-> CeilMinutes(lockoutUntil.n - t),
          store |-> raw]
    ELSE [isLocked |-> FALSE, remainingMinutes |-> 0, store |-> Null]

\* the lockout status of the attempt state at time t, and the item afterwards
LockoutOf(raw, lockoutUntil, t) ==
    IF lockoutUntil = Null
    THEN [isLocked |-> FALSE, remainingMinutes |-> 0, store |-> raw]
    ELSE IF lockoutUntil.t = "num" /\ t < lockoutUntil.n
    THEN [isLocked |-> TRUE, remainingMinutes |-> CeilMinutes(lockoutUntil.n - t),
          store |-> raw]
    ELSE [isLocked |-> FALSE, remainingMinutes |-> 0, store |-> Null]

\* RateLimiter.checkLockoutStatus at time t
checkLockoutStatus(raw, t) ==
    LockoutOf(raw, GetProp(getAttemptState(raw), <<"l", "o", "c", "k", "o", "u", "t", "U", "n",
                "t", "i", "l">>), t)

\* Recorded locking out after the limit was exceeded
RecordedAfterLimit(count, lockoutUntil, t) ==
    IF count > MAX_LOGIN_ATTEMPTS
    THEN AttemptState(Num(count), Num(t + LockoutDurationMs))
    ELSE AttemptState(Num(count), lockoutUntil)

\* the attempt state with count failed attempts recorded at time t
Recorded(count, lockoutUntil, t) ==
    IF count >= MAX_LOGIN_ATTEMPTS
    THEN AttemptState(Num(count), Num(t + LockoutDurationMs))
    ELSE AttemptState(Num(count), lockoutUntil)

\* attemptState.count = attemptState.count + 1, and the lockout when due
OneMoreFailure(attemptState, t) ==
    Recorded(GetProp(attemptState, <<"c", "o", "u", "n", "t">>).n + 1, GetProp(attemptState, <<"l",
                "o", "c", "k", "o", "u", "t", "U", "n", "t", "i", "l">>), t)

\* RateLimiter.recordFailedAttempt at time t: the item afterwards
recordFailedAttempt(raw, t) == saveAttemptState(OneMoreFailure(getAttemptState(raw), t))

\* Math.max(0, remainingAttempts)
Max0(n) == IF n < 0 THEN 0 ELSE n

\* RateLimiter.getRemainingAttempts
getRemainingAttempts(raw) ==
    Max0(MAX_LOGIN_ATTEMPTS - GetProp(getAttemptState(raw), <<"c", "o", "u", "n", "t">>).n)

\* the errors of the sanitized credentials
ValidationErrors(sanitizedUsername, sanitizedPassword) ==
    (IF Len(sanitizedUsername) < USERNAME_MIN_LENGTH THEN <<"usernameMinError">> ELSE <<>>)
    \o (IF Len(sanitizedUsername) > USERNAME_MAX_LENGTH THEN <<"usernameMaxError">> ELSE <<>>)
    \o (IF Len(sanitizedPassword) < PASSWORD_MIN_LENGTH THEN <<"passwordMinError">> ELSE <<>>)

\* InputValidator.validateLoginCredentials
validateLoginCredentials(username, password) ==
    [isValid |-> ValidationErrors(Trim(username), Trim(password)) = <<>>,
     errors |-> ValidationErrors(Trim(username), Trim(password)),
     sanitizedUsername |-> Trim(username), sanitizedPassword |-> Trim(password)]

\* the contents of the login-error container
NoMessage == [kind |-> "none"]

LockoutMessage(remainingMinutes) == [kind |-> "lockout", minutes |-> remainingMinutes]

ValidationMessage(errors) == [kind |-> "validation", errors |-> errors]

\* the message of handleFailedLogin
FailedMessage(message, remainingAttempts) ==
    IF remainingAttempts > 0
    THEN [kind |-> "failed", message |-> message, remaining |-> remainingAttempts]
    ELSE [kind |-> "blocked"]

\* the credentials typed into the login form
Credentials ==
    { <<<<"a", "n", "a">>, <<"a", "b", "c", "d">>>>, <<<<" ", "a", "n", "a", " ">>, <<" ", "a",
                "b", "c", "d">>>>, <<<<"a", "b", " ">>, <<"a", "b", "c", "d">>>>,
      <<<<"a", "n", "a">>, <<"a", "b", "c">>>>, <<<<>>, <<>>>> }

\* what ApiClient.post resolves to: the answer of the webhook, or the error
\* object of an HTTP or network error
Answers ==
    { [status |-> "success", message |-> ""], [status |-> "error", message |-> ""],
      [status |-> "error", message |-> "No se pudo conectar con el servidor."],
      [status |-> "", message |-> "Usuario desconocido"] }

\* authenticate after the answer serverResponse of the webhook
AuthResult(serverResponse) ==
    IF serverResponse.status = "success"
    THEN [success |-> TRUE, message |-> "Autenticacion exitosa."]
    ELSE [success |-> FALSE,
          message |-> IF serverResponse.message # "" THEN serverResponse.message
                      ELSE "Credenciales incorrectas."]

\* authResult.userData of a successful authentication
UserData(username) == Obj(<<Prop(<<"u", "s", "e", "r", "n", "a", "m", "e">>, Str(username))>>)

\* the session data of a session created at time t
SessionData(userData, t) ==
    Obj(<<Prop(<<"u", "s", "e", "r">>, userData), Prop(<<"c", "r", "e", "a", "t", "e", "d", "A",
                "t">>, Num(t)),
          Prop(<<"e", "x", "p", "i", "r", "e", "s", "A", "t">>, Num(t + SessionDurationMs))>>)

\* SessionManager.createSession at time t: the item it stores
createSession(userData, t) == Str(JSONStringify(SessionData(userData, t)))

\* SessionManager.getSession: the session data in the item raw, or null
getSession(raw) == IF raw = Null THEN Null ELSE ParsedOr(JSONParse(raw.s), Null)

\* isNotExpired accepting the instant of expiry
IsNotExpiredInclusive(expiresAt, t) == expiresAt.t = "num" /\ t <= expiresAt.n

\* currentTimestamp < sessionData.expiresAt
IsNotExpired(expiresAt, t) == expiresAt.t = "num" /\ t < expiresAt.n

\* isSessionValid with the session data getSession returned
ValidAt(sessionData, t) ==
    IF sessionData = Null THEN FALSE
    ELSE IsNotExpired(GetProp(sessionData, <<"e", "x", "p", "i", "r", "e", "s", "A", "t">>), t)

\* SessionManager.isSessionValid at time t
isSessionValid(raw, t) == ValidAt(getSession(raw), t)

\* handleSuccessfulLogin: the attempts are reset, the session is created and
\* the dashboard is shown
handleSuccessfulLogin(userData) ==
    /\ store' = Null
    /\ issued' = 0
    /\ session' = createSession(userData, now)
    /\ sessionAt' = now
    /\ view' = "dashboard"

\* handleFailedLogin once recordFailedAttempt left the item recorded
FailureRecorded(authResult, recorded) ==
    /\ store' = recorded
    /\ shown' = FailedMessage(authResult.message, getRemainingAttempts(recorded))

\* handleFailedLogin: the attempt is recorded and the error is shown
handleFailedLogin(authResult) ==
    /\ FailureRecorded(authResult, recordFailedAttempt(store, now))
    /\ view' = view
    /\ UNCHANGED <<session, sessionAt, issued>>

\* what the lockout check found: a lockout in force, a lockout that is over
\* and was cleared, or no lockout
CheckOutcome(lockoutStatus) ==
    IF lockoutStatus.isLocked THEN "locked"
    ELSE IF lockoutStatus.store # store THEN "expired"
    ELSE "clear"

\* the requests issued since the last reset, after the lockout check
IssuedAfter(lockoutStatus) == IF lockoutStatus.store = store THEN issued ELSE 0

\* issued counts no further than one request beyond the limit
IssuedCap == MAX_LOGIN_ATTEMPTS + 1

\* the count of the requests issued after one more
OneMore(n) == IF n < IssuedCap THEN n + 1 ELSE n

\* handleLoginFormSubmit stops at the lockout check
SubmitLocked(lockoutStatus) ==
    /\ lockoutStatus.isLocked
    /\ shown' = LockoutMessage(lockoutStatus.remainingMinutes)
    /\ store' = lockoutStatus.store
    /\ called' = FALSE
    /\ issued' = IssuedAfter(lockoutStatus)
    /\ UNCHANGED <<pending, view, grantedBy, session, sessionAt>>

\* handleLoginFormSubmit stops at the validation of the credentials
SubmitInvalid(lockoutStatus, validationResult) ==
    /\ ~lockoutStatus.isLocked
    /\ ~validationResult.isValid
    /\ shown' = ValidationMessage(validationResult.errors)
    /\ store' = lockoutStatus.store
    /\ called' = FALSE
    /\ issued' = IssuedAfter(lockoutStatus)
    /\ UNCHANGED <<pending, view, grantedBy, session, sessionAt>>

\* handleLoginFormSubmit calls authenticate, which returns at once in DEV MODE
SubmitBypassed(lockoutStatus, validationResult) ==
    /\ ~lockoutStatus.isLocked
    /\ validationResult.isValid
    /\ config.BYPASS_LOGIN
    /\ called' = TRUE
    /\ grantedBy' = "bypass"
    /\ shown' = NoMessage
    /\ handleSuccessfulLogin(UserData(validationResult.sanitizedUsername))
    /\ UNCHANGED pending

\* handleLoginFormSubmit calls authenticate, which posts to the webhook
SubmitPosted(lockoutStatus, validationResult) ==
    /\ ~lockoutStatus.isLocked
    /\ validationResult.isValid
    /\ ~config.BYPASS_LOGIN
    /\ pending < MaxPending
    /\ called' = TRUE
    /\ pending' = pending + 1
    /\ shown' = NoMessage
    /\ store' = lockoutStatus.store
    /\ issued' = OneMore(IssuedAfter(lockoutStatus))
    /\ UNCHANGED <<view, grantedBy, session, sessionAt>>

\* handleLoginFormSubmit up to its await, with the lockout status and the
\* validation result it computes
SubmitWith(lockoutStatus, validationResult) ==
    \/ SubmitLocked(lockoutStatus)
    \/ SubmitInvalid(lockoutStatus, validationResult)
    \/ SubmitBypassed(lockoutStatus, validationResult)
    \/ SubmitPosted(lockoutStatus, validationResult)

\* handleLoginFormSubmit after its lockout check, on any credentials
SubmitChecked(lockoutStatus) ==
    /\ \E c \in Credentials : SubmitWith(lockoutStatus, validateLoginCredentials(c[1], c[2]))
    /\ checked' = CheckOutcome(lockoutStatus)

\* the user submits the login form
Submit ==
    /\ view = "login"
    /\ SubmitChecked(checkLockoutStatus(store, now))
    /\ UNCHANGED <<config, now, outsideLogin>>

\* the sanitized usernames of the requests in flight
PostedUsernames ==
    { validateLoginCredentials(c[1], c[2]).sanitizedUsername :
        c \in {d \in Credentials : validateLoginCredentials(d[1], d[2]).isValid} }

\* the webhook answers: authenticate returns and handleLoginFormSubmit resumes
Respond ==
    /\ pending > 0
    /\ pending' = pending - 1
    /\ \E serverResponse \in Answers, username \in PostedUsernames :
          IF AuthResult(serverResponse).success
          THEN handleSuccessfulLogin(UserData(username)) /\ shown' = shown
               /\ grantedBy' = "webhook"
          ELSE handleFailedLogin(AuthResult(serverResponse)) /\ grantedBy' = grantedBy
    /\ UNCHANGED <<config, now, called, checked, outsideLogin>>

\* AuthModule.initialize on a page load: the requests in flight are gone with
\* the page they were sent from
Load ==
    /\ \E hasResetToken \in BOOLEAN :
          view' = IF hasResetToken THEN "reset"
                  ELSE IF isSessionValid(session, now) THEN "dashboard" ELSE "login"
    /\ pending' = 0
    /\ shown' = NoMessage
    /\ called' = FALSE
    /\ checked' = "never"
    /\ UNCHANGED <<config, now, store, grantedBy, session, sessionAt, issued, outsideLogin>>

\* AuthModule.logout: the session is destroyed and the page reloaded
Logout ==
    /\ view = "dashboard"
    /\ session' = Null
    /\ sessionAt' = -1
    /\ grantedBy' = "nothing"
    /\ view' = "login"
    /\ pending' = 0
    /\ shown' = NoMessage
    /\ called' = FALSE
    /\ checked' = "never"
    /\ UNCHANGED <<config, now, store, issued, outsideLogin>>

\* time passes
Tick ==
    /\ now + TimeStep <= MaxTicks * TimeStep
    /\ now' = now + TimeStep
    /\ UNCHANGED <<config, store, pending, view, shown, called, grantedBy, session, sessionAt,
                   issued, checked, outsideLogin>>

----------------------------------------------------------------------------
(* AuthModule: the recovery of a password *)

\* the most timers that wait to hide the recovery modal
MaxTimers == 2

\* REQUEST_PASSWORD_RESET as the repository sets it, and set to a webhook
NoEndpoint == ""

RecoveryEndpoints == {NoEndpoint, "https://n8n.example/webhook/request-password-reset"}

\* the innerHTML the page gives the submit button of the recovery form, and
\* the one handleForgotPasswordSubmit gives it while the request is on its way
SubmitLabel == "Enviar"

SendingLabel == "<span class=\"loading-spinner\"></span> Enviando..."

\* what is typed into the input recovery-username
RecoveryUsernames == { <<>>, <<" ", " ">>, <<" ", "a", "n", "a", " ">> }

NoRequest == [posted |-> FALSE]

\* the recovery message container after clearRecoveryMessage
NoRecoveryMessage == [type |-> "", text |-> [fixed |-> ""]]

\* the messages the module words itself, and the message of a response
FixedText(name) == [fixed |-> name]

GivenText(message) == [given |-> message]

\* showRecoveryMessage(message, type)
showRecoveryMessage(message, type) == recoveryMessage' = [type |-> type, text |-> message]

\* what fetch does with the POST: an HTTP error status, a network error, or a
\* response whose JSON body is read
RecoveryBodies ==
    { Obj(<<Prop(<<"s", "u", "c", "c", "e", "s", "s">>, Bool(TRUE))>>),
      Obj(<<Prop(<<"s", "u", "c", "c", "e", "s", "s">>, Bool(FALSE)), Prop(<<"m", "e", "s", "s",
                  "a", "g", "e">>, Str(<<"U", "s", "u", "a", "r", "i", "o", " ", "n", "o", " ",
                  "e", "n", "c", "o", "n", "t", "r", "a", "d", "o">>))>>),
      Obj(<<Prop(<<"s", "u", "c", "c", "e", "s", "s">>, Bool(FALSE))>>),
      Obj(<<Prop(<<"s", "t", "a", "t", "u", "s">>, Str(<<"s", "u", "c", "c", "e", "s", "s">>))>>),
      Obj(<<Prop(<<"s", "t", "a", "t", "u", "s">>, Str(<<"e", "r", "r", "o", "r">>)), Prop(<<"m",
                  "e", "s", "s", "a", "g", "e">>, Str(<<"U", "s", "u", "a", "r", "i", "o", " ",
                  "n", "o", " ", "e", "n", "c", "o", "n", "t", "r", "a", "d", "o">>))>>),
      Arr(<<>>), Null }

FetchOutcomes ==
    { [via |-> "http", status |-> 500], [via |-> "http", status |-> 404], [via |-> "network"] }
    \cup { [via |-> "json", body |-> b] : b \in RecoveryBodies }

\* the object ApiClient.post returns for an error
ApiErrorResponse(message) ==
    Obj(<<Prop(<<"s", "t", "a", "t", "u", "s">>, Str(<<"e", "r", "r", "o", "r">>)), Prop(<<"m",
                "e", "s", "s", "a", "g", "e">>, Str(message))>>)

\* ApiClient.post: what its promise resolves to
ApiClientPost(outcome) ==
    CASE outcome.via = "http" ->
            ApiErrorResponse(<<"E", "r", "r", "o", "r", " ", "e", "n", " ", "l", "a", " ", "c",
                        "o", "m", "u", "n", "i", "c", "a", "c", "i", "o", "n", " ", "c", "o", "n",
                        " ", "e", "l", " ", "s", "e", "r", "v", "i", "d", "o", "r", ".", " ", "C",
                        "o", "d", "i", "g", "o", ":", " ">>
                             \o NumberToString(outcome.status))
      [] outcome.via = "network" ->
            ApiErrorResponse(<<"N", "o", " ", "s", "e", " ", "p", "u", "d", "o", " ", "c", "o",
                        "n", "e", "c", "t", "a", "r", " ", "c", "o", "n", " ", "e", "l", " ", "s",
                        "e", "r", "v", "i", "d", "o", "r", ".", " ", "V", "e", "r", "i", "f", "i",
                        "c", "a", " ", "t", "u", " ", "c", "o", "n", "e", "x", "i", "o", "n", " ",
                        "a", " ", "i", "n", "t", "e", "r", "n", "e", "t", ".">>)
      [] OTHER -> outcome.body

\* response.message || the default message
MessageOr(message, fallback) == IF Truthy(message) THEN GivenText(message) ELSE FixedText(fallback)

\* the class of the message handleForgotPasswordSubmit shows for response
ShownType(response) ==
    IF response # Null /\ GetProp(response, <<"s", "u", "c", "c", "e", "s",
                "s">>) # Bool(FALSE) THEN "success" ELSE "error"

\* handleForgotPasswordSubmit once ApiClient.post resolved to response
RecoveryAnswered(response) ==
    IF response # Null
    THEN IF GetProp(response, <<"s", "u", "c", "c", "e", "s", "s">>) = Bool(FALSE)
         THEN /\ showRecoveryMessage(MessageOr(GetProp(response, <<"m", "e", "s", "s", "a", "g",
                     "e">>), "userNotFound"),
                                     "error")
              /\ UNCHANGED <<recoveryUsername, hideTimers>>
         ELSE /\ showRecoveryMessage(FixedText("emailSent"), "success")
              /\ recoveryUsername' = <<>>
              /\ hideTimers' = hideTimers + 1
    ELSE /\ showRecoveryMessage(FixedText("connectionError"), "error")
         /\ UNCHANGED <<recoveryUsername, hideTimers>>

\* handleForgotPasswordClick: showRecoveryModal
OpenRecovery ==
    /\ recoveryModal' = "flex"
    /\ recoveryMessage' = NoRecoveryMessage
    /\ UNCHANGED <<recoveryEndpoint, recoveryUsername, submitButton, recoveryRequest, hideTimers,
                   answered, outsideRecovery>>

\* the user types a username
TypeUsername ==
    /\ recoveryModal = "flex"
    /\ recoveryUsername' \in RecoveryUsernames
    /\ UNCHANGED <<recoveryEndpoint, recoveryModal, recoveryMessage, submitButton,
                   recoveryRequest, hideTimers, answered, outsideRecovery>>

\* handleForgotPasswordSubmit returns early: no username, or no endpoint
SubmitRejected(username) ==
    /\ username = <<>> \/ recoveryEndpoint = NoEndpoint
    /\ showRecoveryMessage(FixedText(IF username = <<>> THEN "usernameRequired"
                                     ELSE "serviceNotConfigured"), "error")
    /\ UNCHANGED <<submitButton, recoveryRequest>>

\* handleForgotPasswordSubmit up to its await: the button is disabled and the
\* request posted
SubmitSent(username) ==
    /\ username # <<>>
    /\ recoveryEndpoint # NoEndpoint
    /\ hideTimers < MaxTimers
    /\ recoveryRequest' = [posted |-> TRUE, username |-> username,
                           originalButtonHtml |-> submitButton.innerHTML]
    /\ submitButton' = [disabled |-> TRUE, innerHTML |-> SendingLabel]
    /\ UNCHANGED recoveryMessage

\* the user submits the recovery form, which a disabled submit button prevents
SubmitRecovery ==
    /\ recoveryModal = "flex"
    /\ ~submitButton.disabled
    /\ SubmitRejected(Trim(recoveryUsername)) \/ SubmitSent(Trim(recoveryUsername))
    /\ UNCHANGED <<recoveryEndpoint, recoveryModal, recoveryUsername, hideTimers, answered,
                   outsideRecovery>>

\* the POST ends and handleForgotPasswordSubmit resumes, through its finally
RespondRecovery ==
    /\ recoveryRequest.posted
    /\ \E outcome \in FetchOutcomes :
          /\ RecoveryAnswered(ApiClientPost(outcome))
          /\ answered' = [via |-> outcome.via, type |-> ShownType(ApiClientPost(outcome))]
    /\ submitButton' = [disabled |-> FALSE, innerHTML |-> recoveryRequest.originalButtonHtml]
    /\ recoveryRequest' = NoRequest
    /\ UNCHANGED <<recoveryEndpoint, recoveryModal, outsideRecovery>>

\* hideRecoveryModal: the modal is hidden, the message cleared, the form reset
hideRecoveryModal ==
    /\ recoveryModal' = "none"
    /\ recoveryMessage' = NoRecoveryMessage
    /\ recoveryUsername' = <<>>

\* the user cancels the recovery or clicks beside the modal
CancelRecovery ==
    /\ recoveryModal = "flex"
    /\ hideRecoveryModal
    /\ UNCHANGED <<recoveryEndpoint, submitButton, recoveryRequest, hideTimers, answered,
                   outsideRecovery>>

\* a timer set after the success message fires
HideTimerFires ==
    /\ hideTimers > 0
    /\ hideTimers' = hideTimers - 1
    /\ hideRecoveryModal
    /\ UNCHANGED <<recoveryEndpoint, submitButton, recoveryRequest, answered, outsideRecovery>>

\* the recovery before anything happened in it
RecoveryIdle ==
    /\ recoveryModal = "none"
    /\ recoveryUsername = <<>>
    /\ recoveryMessage = NoRecoveryMessage
    /\ submitButton = [disabled |-> FALSE, innerHTML |-> SubmitLabel]
    /\ recoveryRequest = NoRequest
    /\ hideTimers = 0
    /\ answered = [via |-> "none", type |-> ""]

----------------------------------------------------------------------------
(* CallsModule: the call history *)

\* the most calls of a response, and the most requests in flight
MaxCalls == 2

MaxRequests == 2

RETELL_AGENT_ID == <<"a", "g", "e", "n", "t", "_", "1", "c", "2", "7", "d", "8", "9", "a", "3",
            "b", "8", "8", "9", "7", "2", "d", "6", "e", "f", "9", "3", "7", "3", "8", "f", "1">>

\* a call of the agent agent with the transcript given
CallOf(agent, callTranscript) ==
    Obj(<<Prop(<<"a", "g", "e", "n", "t", "_", "i", "d">>, Str(agent)), Prop(<<"t", "r", "a", "n",
                "s", "c", "r", "i", "p", "t">>, callTranscript)>>)

\* the calls of the responses: two with different transcripts, one without
\* transcript, one whose transcript has a null entry, one of another agent
CallData ==
    { CallOf(RETELL_AGENT_ID, Str(<<"B", "o", "t", ":", " ", "H", "i">>)),
      CallOf(RETELL_AGENT_ID, Arr(<<EntryUserAyuda>>)),
      CallOf(RETELL_AGENT_ID, Str(<<"S", "i", "n", " ", "t", "r", "a", "n", "s", "c", "r", "i",
                  "p", "c", "i", "o", "n">>)),
      CallOf(RETELL_AGENT_ID, Arr(<<Null>>)),
      CallOf(<<"a", "g", "e", "n", "t", "_", "2">>, Str(<<"B", "o", "t", ":", " ", "H", "i">>)) }

\* the responses of the endpoint: an object with data, and what else
\* loadCallHistory provides for
CallResponses ==
    { Obj(<<Prop(<<"d", "a", "t", "a">>, Arr(c))>>) : c \in SeqsUpTo(CallData, MaxCalls) }
    \cup { Arr(<<CallOf(RETELL_AGENT_ID, Arr(<<EntryUserAyuda>>))>>),
           Str(JSONStringify(Arr(<<CallOf(RETELL_AGENT_ID, Str(<<"B", "o", "t", ":", " ", "H",
                       "i">>))>>))),
           Str(<<"{">>),
           Obj(<<Prop(<<"d", "a", "t", "a">>, Arr(<<CallOf(RETELL_AGENT_ID, Str(<<"B", "o", "t",
                       ":", " ", "H", "i">>)), Null>>))>>),
           Null }

\* what calls-table-body shows
PageTable == [kind |-> "page", rows |-> <<>>]

LoadingTable == [kind |-> "loading", rows |-> <<>>]

EmptyTable == [kind |-> "empty", rows |-> <<>>]

ErrorTable == [kind |-> "error", rows |-> <<>>]

RowsTable(rows) == [kind |-> "rows", rows |-> rows]

\* call.transcript || ''
TranscriptOf(call) ==
    IF Truthy(GetProp(call, <<"t", "r", "a", "n", "s", "c", "r", "i", "p",
                "t">>)) THEN GetProp(call, <<"t", "r", "a", "n", "s", "c", "r", "i", "p",
                "t">>) ELSE Str(<<>>)

\* transcript && transcript !== 'Sin transcripcion'
hasTranscript(callTranscript) ==
    Truthy(callTranscript) /\ callTranscript # Str(<<"S", "i", "n", " ", "t", "r", "a", "n", "s",
                "c", "r", "i", "p", "c", "i", "o", "n">>)

\* array[index] = v, which leaves holes below index
SetIndex(array, index, v) ==
    IF index < Len(array) THEN [array EXCEPT ![index + 1] = v]
    ELSE array \o [k \in 1..(index - Len(array)) |-> Undefined] \o <<v>>

\* calls.map(function (call, index) ...) from index on: formatted is
\* formattedTranscripts and rows the rows so far; it throws on a call that is
\* null and when format throws
RECURSIVE RenderRows(_, _, _, _)

\* the row of calls[index] once format ended with outcome
RowFormatted(calls, index, formatted, rows, outcome) ==
    IF outcome.threw THEN [threw |-> TRUE, formatted |-> formatted, rows |-> rows]
    ELSE RenderRows(calls, index + 1, SetIndex(formatted, index, outcome.v),
                    Append(rows, index))

\* the row of calls[index], callTranscript its transcript
RowWith(calls, index, formatted, rows, callTranscript) ==
    IF hasTranscript(callTranscript)
    THEN RowFormatted(calls, index, formatted, rows, format(callTranscript))
    ELSE RenderRows(calls, index + 1, formatted, Append(rows, -1))

RenderRows(calls, index, formatted, rows) ==
    IF index >= Len(calls) THEN [threw |-> FALSE, formatted |-> formatted, rows |-> rows]
    ELSE IF calls[index + 1] \in {Null, Undefined}
    THEN [threw |-> TRUE, formatted |-> formatted, rows |-> rows]
    ELSE RowWith(calls, index, formatted, rows, TranscriptOf(calls[index + 1]))

\* the catch of loadCallHistory leaving the table as it is
CaughtTableKept(prior) == prior

\* the table after the catch of loadCallHistory
CaughtTable(prior) == ErrorTable

\* renderCallsTable once its rows are mapped, and the catch when they threw
TableOf(rendered, prior) ==
    [threw |-> rendered.threw, formatted |-> rendered.formatted,
     table |-> IF rendered.threw THEN CaughtTable(prior) ELSE RowsTable(rendered.rows)]

\* CallsModule.renderCallsTable(calls), and the catch of its caller
renderCallsTable(calls, prior) ==
    IF Len(calls) = 0 THEN [threw |-> FALSE, formatted |-> <<>>, table |-> EmptyTable]
    ELSE TableOf(RenderRows(calls, 0, <<>>, <<>>), prior)

\* parsedResponse: the response, decoded when it is a string
ParsedResponse(response) ==
    IF IsString(response) THEN JSONParse(response.s) ELSE [ok |-> TRUE, v |-> response]

\* allCalls
AllCalls(parsedResponse) ==
    IF Truthy(parsedResponse) /\ IsArray(GetProp(parsedResponse, <<"d", "a", "t", "a">>))
    THEN GetProp(parsedResponse, <<"d", "a", "t", "a">>).a
    ELSE IF IsArray(parsedResponse) THEN parsedResponse.a
    ELSE <<>>

\* allCalls.filter(call.agent_id === AppConfig.RETELL_AGENT_ID), which throws
\* on a call that is null
OfAgent(call) == GetProp(call, <<"a", "g", "e", "n", "t", "_", "i", "d">>) = Str(RETELL_AGENT_ID)

FilterCalls(allCalls) ==
    IF \E k \in 1..Len(allCalls) : allCalls[k] \in {Null, Undefined} THEN TypeError
    ELSE Returned(SelectSeq(allCalls, OfAgent))

\* the calls whose rows the table shows after a rendering
ShownCalls(rendered, calls) ==
    IF rendered.table.kind # "rows" THEN <<>>
    ELSE IF rendered.threw THEN tableCalls
    ELSE calls

\* the then-callback from renderCallsTable(calls) on
Rendering(rendered, calls) ==
    /\ formattedTranscripts' = rendered.formatted
    /\ tableBody' = rendered.table
    /\ tableCalls' = ShownCalls(rendered, calls)

\* the then-callback once the calls are filtered
Filtered(filtered) ==
    IF filtered.threw
    THEN /\ tableBody' = CaughtTable(tableBody)
         /\ tableCalls' = IF CaughtTable(tableBody).kind = "rows" THEN tableCalls ELSE <<>>
         /\ UNCHANGED <<formattedTranscripts, loadedCalls>>
    ELSE /\ loadedCalls' = filtered.v
         /\ Rendering(renderCallsTable(filtered.v, tableBody), filtered.v)

\* the then-callback of loadCallHistory, and its catch
Responded(parsedResponse) ==
    IF ~parsedResponse.ok
    THEN Rendering(renderCallsTable(<<>>, tableBody), <<>>) /\ UNCHANGED loadedCalls
    ELSE Filtered(FilterCalls(AllCalls(parsedResponse.v)))

\* CallsModule.loadCallHistory up to the request
LoadCallHistory ==
    /\ callsPending < MaxRequests
    /\ callsPending' = callsPending + 1
    /\ tableBody' = LoadingTable
    /\ tableCalls' = <<>>
    /\ UNCHANGED <<formattedTranscripts, loadedCalls, modalBody, outsideCalls>>

\* a request is answered: ApiClient.get resolves to the response, or to null
RespondCalls ==
    /\ callsPending > 0
    /\ callsPending' = callsPending - 1
    /\ \E response \in CallResponses : Responded(ParsedResponse(response))
    /\ UNCHANGED <<modalBody, outsideCalls>>

\* formattedTranscripts[index]
TranscriptAt(index) ==
    IF index >= 0 /\ index < Len(formattedTranscripts) THEN formattedTranscripts[index + 1]
    ELSE Undefined

\* a click on a transcript button of the table: openTranscriptModal(index)
OpenTranscript ==
    /\ \E k \in 1..Len(tableBody.rows) :
          /\ tableBody.rows[k] # -1
          /\ modalBody' = IF Truthy(TranscriptAt(tableBody.rows[k]))
                          THEN TranscriptAt(tableBody.rows[k]) ELSE modalBody
    /\ UNCHANGED <<callsPending, tableBody, formattedTranscripts, loadedCalls, tableCalls,
                   outsideCalls>>

\* the call history before anything happened in it
CallsIdle ==
    /\ callsPending = 0
    /\ tableBody = PageTable
    /\ formattedTranscripts = <<>>
    /\ loadedCalls = <<>>
    /\ tableCalls = <<>>
    /\ modalBody = Str(<<>>)

----------------------------------------------------------------------------
(* DashboardModule.formatMinutesToReadable *)

\* the most hours of the minutes formatted
MaxHours == 2

\* the number of c hundredths, the minutes of the statistics having at most
\* two decimals
Hundredths(c) == [t |-> "num", hundredths |-> c]

\* the decimals of String(number) for f hundredths: none, one or two digits
FractionText(f) ==
    IF f = 0 THEN <<>>
    ELSE IF f % 10 = 0 THEN <<".">> \o NatToString(f \div 10)
    ELSE <<".">> \o <<Digits[(f \div 10) + 1], Digits[(f % 10) + 1]>>

\* Number::toString of c hundredths
DecimalText(c) ==
    IF c < 0 THEN <<"-">> \o NatToString((-c) \div 100) \o FractionText((-c) % 100)
    ELSE NatToString(c \div 100) \o FractionText(c % 100)

\* String(totalMinutes)
StringOf(v) ==
    CASE v.t = "undefined" -> <<"u", "n", "d", "e", "f", "i", "n", "e", "d">>
      [] v.t = "null" -> <<"n", "u", "l", "l">>
      [] v.t = "bool" -> IF v.b THEN <<"t", "r", "u", "e">> ELSE <<"f", "a", "l", "s", "e">>
      [] v.t = "num" -> DecimalText(v.hundredths)
      [] OTHER -> v.s

\* the digits of s from position i on: the position after them, their value
\* after mant, and how many there are after count
RECURSIVE ReadDigits(_, _, _, _)
ReadDigits(s, i, mant, count) ==
    IF i <= Len(s) /\ IsDigit(s[i])
    THEN ReadDigits(s, i + 1, mant * 10 + DigitValue(s[i]), count + 1)
    ELSE [i |-> i, mant |-> mant, count |-> count]

NaN == [nan |-> TRUE]

NoDigits(i) == [i |-> i, mant |-> 0, count |-> 0]

\* the number of a sign, integer digits and decimals: mant / 10^scale
FloatOf(neg, int, frac) ==
    IF int.count + frac.count = 0 THEN NaN
    ELSE [nan |-> FALSE, neg |-> neg, mant |-> int.mant * (10 ^ frac.count) + frac.mant,
          scale |-> frac.count]

FloatFrom(s, neg, int) ==
    IF int.i <= Len(s) /\ s[int.i] = "."
    THEN FloatOf(neg, int, ReadDigits(s, int.i + 1, 0, 0))
    ELSE FloatOf(neg, int, NoDigits(int.i))

FloatSigned(s, i) ==
    IF i <= Len(s) /\ s[i] \in {"-", "+"}
    THEN FloatFrom(s, s[i] = "-", ReadDigits(s, i + 1, 0, 0))
    ELSE FloatFrom(s, FALSE, ReadDigits(s, i, 0, 0))

\* parseFloat(s): the longest decimal literal after the leading white space,
\* NaN when there is none (the texts formatted hold no exponent and no Infinity)
parseFloat(s) == FloatSigned(s, SkipSpace(s, 1))

\* Math.round(num / den) for a positive quotient
Round(num, den) == (2 * num + den) \div (2 * den)

\* the parts of hours, mins and secs
Parts(hours, mins, secs) ==
    (IF hours > 0 THEN <<NatToString(hours) \o <<"h">>>> ELSE <<>>)
    \o (IF mins > 0 THEN <<NatToString(mins) \o <<"m", "i", "n">>>> ELSE <<>>)
    \o (IF secs > 0 /\ hours = 0 THEN <<NatToString(secs) \o <<"s", "e", "g">>>> ELSE <<>>)

\* parts.length > 0 ? parts.join(' ') : '0min'
JoinedOr(parts) == IF Len(parts) > 0 THEN Join(parts, <<" ">>) ELSE <<"0", "m", "i", "n">>

ReadableSeconds(totalSeconds) ==
    JoinedOr(Parts(totalSeconds \div 3600, (totalSeconds % 3600) \div 60,
                   (totalSeconds % 3600) % 60))

\* formatMinutesToReadable from isNaN(minutes) on
ReadableOf(minutes) ==
    IF minutes.nan \/ minutes.neg \/ minutes.mant = 0 THEN <<"0", "m", "i", "n">>
    ELSE ReadableSeconds(Round(minutes.mant * 60, 10 ^ minutes.scale))

\* DashboardModule.formatMinutesToReadable(totalMinutes)
formatMinutesToReadable(v) == ReadableOf(parseFloat(StringOf(v)))

\* the minutes formatted: numbers of up to MaxHours hours with and without
\* decimals, their negatives, the same as texts, and what is not a number
MinuteNumbers ==
    { h * 6000 + m * 100 + f : h \in 0..MaxHours, m \in {0, 5, 20, 59}, f \in {0, 50, 80, 99} }

MinuteInputs ==
    { Hundredths(c) : c \in MinuteNumbers }
    \cup { Hundredths(-c) : c \in MinuteNumbers }
    \cup { Str(DecimalText(c)) : c \in MinuteNumbers }
    \cup { Str(<<" ", "8", "0", ".", "5", " ", "m", "i", "n">>), Str(<<"1", "2", "a", "b", "c">>),
                Str(<<".", "5">>), Str(<<"+", "1", "2", "5", ".">>), Str(<<"a", "b", "c">>),
           Str(<<".">>), Str(<<"-">>), Str(<<>>), Null, Undefined, Bool(TRUE) }

\* the statistics are shown: formatMinutesToReadable(totalMinutes)
FormatMinutes ==
    /\ minutesPc = "start"
    /\ readable' = formatMinutesToReadable(totalMinutes)
    /\ minutesPc' = "done"
    /\ UNCHANGED <<totalMinutes, outsideMinutes>>

\* before formatMinutesToReadable is called
MinutesIdle ==
    /\ minutesPc = "start"
    /\ readable = <<>>

----------------------------------------------------------------------------
(* The state machine of TranscriptFormatter.format *)

\* the login flow before anything happened in it
LoginIdle ==
    /\ now = 0
    /\ store = Null
    /\ pending = 0
    /\ view = "login"
    /\ shown = NoMessage
    /\ called = FALSE
    /\ grantedBy = "nothing"
    /\ session = Null
    /\ sessionAt = -1
    /\ issued = 0
    /\ checked = "never"

Init ==
    /\ transcript \in Inputs
    /\ pc = "called"
    /\ messages = <<>>
    /\ html = Undefined
    /\ log = <<>>
    /\ config = DEV_MODE
    /\ LoginIdle
    /\ recoveryEndpoint = NoEndpoint
    /\ RecoveryIdle
    /\ CallsIdle
    /\ totalMinutes = Undefined
    /\ MinutesIdle

\* EndsSharedMessages is Ends with messages a variable of the module, which
\* keeps the turns of the earlier invocations
EndsSharedMessages(outcome) ==
    LET all == messages \o outcome.messages
        out == IF outcome.threw \/ all = <<>> THEN outcome.v
               ELSE Str(generateConversationHtml(all))
    IN  /\ pc' = IF outcome.threw THEN "threw" ELSE "returned"
        /\ messages' = all
        /\ html' = out
        /\ log' = Append(log, [input |-> transcript, threw |-> outcome.threw, v |-> out])

\* format ends with outcome: its return or the exception it raises
Ends(outcome) ==
    /\ pc' = IF outcome.threw THEN "threw" ELSE "returned"
    /\ messages' = outcome.messages
    /\ html' = outcome.v
    /\ log' = Append(log, [input |-> transcript, threw |-> outcome.threw, v |-> outcome.v])

\* one call format(transcript), run to its end
Format ==
    /\ pc = "called"
    /\ Ends(format(transcript))
    /\ UNCHANGED <<transcript, outsideFormat>>

Next == Format

Spec == Init /\ [][Next]_vars

\* the transcripts of the repeated invocations
RepeatedInputs ==
    { ScenarioA, ScenarioC, Arr(<<EntryAgentHola, EntryUserAyuda>>), Arr(<<Null>>), Null,
      Obj(<<Prop(<<"f", "o", "o">>, Str(<<"b", "a", "r">>))>>) }

RepeatedInit ==
    /\ transcript \in RepeatedInputs
    /\ pc = "called"
    /\ messages = <<>>
    /\ html = Undefined
    /\ log = <<>>
    /\ config = DEV_MODE
    /\ LoginIdle
    /\ recoveryEndpoint = NoEndpoint
    /\ RecoveryIdle
    /\ CallsIdle
    /\ totalMinutes = Undefined
    /\ MinutesIdle

\* the caller invokes format again, on any transcript
Call ==
    /\ pc \in {"returned", "threw"}
    /\ Len(log) < MaxInvocations
    /\ transcript' \in RepeatedInputs
    /\ pc' = "called"
    /\ UNCHANGED <<messages, html, log, outsideFormat>>

RepeatedNext == Format \/ Call

Repeated == RepeatedInit /\ [][RepeatedNext]_vars


----------------------------------------------------------------------------
(* The state machine of the login flow *)

\* no call of format is under way
FormatIdle ==
    /\ transcript = Undefined
    /\ pc = "called"
    /\ messages = <<>>
    /\ html = Undefined
    /\ log = <<>>

LoginInit ==
    /\ config \in {DEV_MODE, DEV_MODE_OFF}
    /\ LoginIdle
    /\ FormatIdle
    /\ recoveryEndpoint = NoEndpoint
    /\ RecoveryIdle
    /\ CallsIdle
    /\ totalMinutes = Undefined
    /\ MinutesIdle

LoginNext == Submit \/ Respond \/ Load \/ Logout \/ Tick

Login == LoginInit /\ [][LoginNext]_vars

----------------------------------------------------------------------------
(* The state machine of the recovery of a password *)

RecoveryInit ==
    /\ recoveryEndpoint \in RecoveryEndpoints
    /\ RecoveryIdle
    /\ CallsIdle
    /\ totalMinutes = Undefined
    /\ MinutesIdle
    /\ FormatIdle
    /\ config = DEV_MODE
    /\ LoginIdle

RecoveryNext ==
    \/ OpenRecovery
    \/ TypeUsername
    \/ SubmitRecovery
    \/ RespondRecovery
    \/ CancelRecovery
    \/ HideTimerFires

Recovery == RecoveryInit /\ [][RecoveryNext]_vars

----------------------------------------------------------------------------
(* The state machine of the call history *)

CallsInit ==
    /\ CallsIdle
    /\ totalMinutes = Undefined
    /\ MinutesIdle
    /\ FormatIdle
    /\ config = DEV_MODE
    /\ LoginIdle
    /\ recoveryEndpoint = NoEndpoint
    /\ RecoveryIdle

CallsNext == LoadCallHistory \/ RespondCalls \/ OpenTranscript

CallHistory == CallsInit /\ [][CallsNext]_vars

----------------------------------------------------------------------------
(* The state machine of formatMinutesToReadable *)

MinutesInit ==
    /\ totalMinutes \in MinuteInputs
    /\ MinutesIdle
    /\ FormatIdle
    /\ config = DEV_MODE
    /\ LoginIdle
    /\ recoveryEndpoint = NoEndpoint
    /\ RecoveryIdle
    /\ CallsIdle

MinutesNext == FormatMinutes

Minutes == MinutesInit /\ [][MinutesNext]_vars

----------------------------------------------------------------------------
(* Properties of format *)

TypeOK ==
    /\ pc \in {"called", "returned", "threw"}
    /\ transcript \in Inputs
    /\ html.t \in {"undefined", "str"}

\* the value shown by the fallback block: the string itself, or the JSON text
PlainText(v) == IF IsString(v) THEN v.s ELSE JSONStringify(v)

\* the trimmed text of a string that looks like JSON, and its decoding
LooksLikeJSON(v) ==
    IsString(v) /\ (StartsWith(Trim(v.s), <<"[">>) \/ StartsWith(Trim(v.s), <<"{">>))

Decoded(v) == JSONParse(Trim(v.s))

\* C1: format never throws: on every input, the arrays with null, non-object
\* and wrongly typed entries included, it returns a string.
C1_FormatNeverThrows == pc # "called" => (pc = "returned" /\ IsString(html))

\* C2: a string that decodes to an object without a transcript array gives zero
\* turns and the fallback block holding the escaped original string.
C2_UnrecognizedObjectFallsBack ==
    (pc # "called" /\ LooksLikeJSON(transcript) /\ Decoded(transcript).ok
        /\ Decoded(transcript).v.t = "obj"
        /\ ~IsArray(GetProp(Decoded(transcript).v, <<"t", "r", "a", "n", "s", "c", "r", "i", "p",
                    "t">>)))
    => (pc = "returned" /\ messages = <<>>
        /\ html = Str(<<"<", "d", "i", "v", " ", "c", "l", "a", "s", "s", "=", "\"", "t", "r", "a",
                    "n", "s", "c", "r", "i", "p", "t", "-", "p", "l", "a", "i", "n", "\"",
                    ">">> \o escapeHtml(transcript.s)
                      \o <<"<", "/", "d", "i", "v", ">">>))

\* C3: on every truthy input format returns the fallback block exactly when
\* no turn was produced, the block holds the escaped original value, and a
\* conversation without bubbles is never returned.
C3_FallbackIffNoTurns ==
    (pc # "called" /\ Truthy(transcript))
    => /\ (html = Str(<<"<", "d", "i", "v", " ", "c", "l", "a", "s", "s", "=", "\"", "t", "r", "a",
                "n", "s", "c", "r", "i", "p", "t", "-", "p", "l", "a", "i", "n", "\"", ">">>
                      \o escapeHtml(PlainText(transcript)) \o <<"<", "/", "d", "i", "v", ">">>))
          <=> (messages = <<>>)
       /\ html # Str(<<"<", "d", "i", "v", " ", "c", "l", "a", "s", "s", "=", "\"", "t", "r", "a",
                   "n", "s", "c", "r", "i", "p", "t", "-", "c", "o", "n", "v", "e", "r", "s", "a",
                   "t", "i", "o", "n", "\"", ">", "<", "/", "d", "i", "v", ">">>)

\* the array format hands to the structured parser: the input, the decoded
\* array, or the transcript array of the decoded object; Undefined when none
StructuredSource(v) ==
    IF IsArray(v) THEN v
    ELSE IF LooksLikeJSON(v) /\ Decoded(v).ok
    THEN IF IsArray(Decoded(v).v) THEN Decoded(v).v
         ELSE IF IsArray(GetProp(Decoded(v).v, <<"t", "r", "a", "n", "s", "c", "r", "i", "p",
                     "t">>))
         THEN GetProp(Decoded(v).v, <<"t", "r", "a", "n", "s", "c", "r", "i", "p", "t">>)
         ELSE Undefined
    ELSE Undefined

\* C4: for an array, and for a string that decodes to an array or to an object
\* with a transcript array, the turns rendered are those the structured parser
\* yields on that array whenever it yields at least one; scenarios A and B.
C4_StructuredTurnsRendered ==
    pc # "called" =>
        /\ LET source == StructuredSource(transcript)
               turns == parseRetellArray(source.a)
           IN  (IsArray(source) /\ ~turns.threw /\ turns.v # <<>>)
               => (pc = "returned" /\ messages = turns.v
                   /\ html = Str(generateConversationHtml(turns.v)))
        /\ transcript = ScenarioB => messages = <<Message("agent", <<"H", "i">>)>>
        /\ transcript = ScenarioA
           => messages = <<Message("agent", <<"H", "o", "l", "a">>), Message("user", <<"N", "e",
                       "c", "e", "s", "i", "t", "o", " ", "a", "y", "u", "d", "a">>)>>

C4_Witness ==
    /\ pc = "returned"
    /\ transcript = ScenarioB
    /\ messages = <<Message("agent", <<"H", "i">>)>>

\* C5: a string that starts with [ or { and fails JSON decoding raises no
\* error, and its turns are those of the plain-text parser on the trimmed string.
C5_MalformedJSONParsedAsText ==
    (pc # "called" /\ LooksLikeJSON(transcript) /\ ~Decoded(transcript).ok)
    => /\ pc = "returned"
       /\ messages = parseTextTranscript(Trim(transcript.s))
       /\ transcript = Str(<<"{", "\n", "A", "g", "e", "n", "t", ":", " ", "h", "i", "\n", "U",
                   "s", "e", "r", ":", " ", "}">>)
          => messages = <<Message("user", <<"{">>), Message("agent", <<"h", "i">>),
                          Message("user", <<"}">>)>>

C5_Witness ==
    /\ pc = "returned"
    /\ transcript = Str(<<"{", "\n", "A", "g", "e", "n", "t", ":", " ", "h", "i", "\n", "U", "s",
                "e", "r", ":", " ", "}">>)
    /\ Len(messages) = 3

\* C6: a falsy input (empty string, null, undefined) gives the empty output:
\* no turns, no bubbles and no fallback block.
C6_FalsyGivesEmptyOutput ==
    (pc # "called" /\ transcript \in {Str(<<>>), Null, Undefined, Num(0), Bool(FALSE)})
    => (pc = "returned" /\ messages = <<>> /\ html = Str(<<>>))

C6_Witness == pc = "returned" /\ transcript = Null /\ html = Str(<<>>)

\* the turn of one entry as the structured parser is described: the entry's
\* turn when its resolved text is a non-blank string, no turn otherwise
RECURSIVE TurnPerEntry(_, _)
TurnPerEntry(entries, i) ==
    IF i > Len(entries) THEN <<>>
    ELSE LET step == RetellStep(<<>>, entries[i])
         IN  (IF step.threw THEN <<>> ELSE step.v) \o TurnPerEntry(entries, i + 1)

\* C7: for every array parseRetellArray returns one turn per entry whose
\* resolved text is non-blank, in array order, and none for any other entry;
\* an entry without content/text/message and without a words array gives none.
C7_OneTurnPerTextEntry ==
    (pc # "called" /\ IsArray(transcript))
    => (pc = "returned" /\ messages = TurnPerEntry(transcript.a, 1))

\* the labels the role normalizer is said to map to agent
ClaimedAgentLabels ==
    { <<"a", "g", "e", "n", "t">>, <<"a", "i">>, <<"b", "o", "t">>, <<"a", "s", "i", "s", "t", "e",
                "n", "t", "e">>, <<"c", "h", "a", "t", "b", "o", "t">>, <<"a", "s", "s", "i", "s",
                "t", "a", "n", "t">>, <<"a", "g", "e", "n", "t", "e">> }

ClaimedRole(label) == IF ToLowerCase(label) \in ClaimedAgentLabels THEN "agent" ELSE "user"

\* C8: normalizeRole is total and binary: it gives agent exactly for the
\* lowercased labels agent, ai, bot, asistente, chatbot, assistant, agente and
\* user for everything else, the empty string included.
C8_NormalizeRoleBinary ==
    pc = "returned" =>
        /\ \A i \in 1..Len(messages) : messages[i].speaker \in {"agent", "user"}
        /\ \A label \in RoleLabels :
              /\ transcript = RoleEntry(label)
                 => messages = <<Message(ClaimedRole(label), <<"x">>)>>
              /\ (transcript = RoleLine(label) /\ ToLowerCase(label) \in
                      {speakerLabels[k] : k \in 1..Len(speakerLabels)})
                 => messages = <<Message(ClaimedRole(label), <<"x">>)>>
        /\ transcript = Arr(<<EntryNoSpeaker>>) => messages = <<Message("user", <<"a", " ", "&",
                    " ", "b">>)>>

C8_Witness ==
    /\ pc = "returned"
    /\ \/ transcript = RoleEntry(<<"a", "g", "e", "n", "t", "e">>) /\ messages[1].speaker = "agent"
       \/ transcript = RoleLine(<<"c", "u", "s", "t", "o", "m", "e",
                   "r">>) /\ messages[1].speaker = "user"

\* C9: every turn either parser produces has a speaker in {agent, user} and a
\* text that is not empty and has no white space at either end.
C9_TurnsWellFormed ==
    \A i \in 1..Len(messages) :
        /\ messages[i].speaker \in {"agent", "user"}
        /\ messages[i].text # <<>>
        /\ messages[i].text[1] \notin WhiteSpace
        /\ messages[i].text[Len(messages[i].text)] \notin WhiteSpace

C9_Witness ==
    /\ pc = "returned"
    /\ transcript = Arr(<<EntryRoleAndSpeaker, EntryBlank>>)
    /\ messages = <<Message("user", <<"<", "b", ">", "o", "k", "<", "/", "b", ">">>)>>

\* the positions of the output at which the text needle starts
Occurrences(text, needle) ==
    {p \in 1..(Len(text) - Len(needle) + 1) :
        text[p] = needle[1] /\ SubSeq(text, p, p + Len(needle) - 1) = needle}

\* the opening of the bubble of a turn, as the claim gives it
ClaimedBubbleHead(speaker) ==
    IF speaker = "agent"
    THEN <<"<", "d", "i", "v", " ", "c", "l", "a", "s", "s", "=", "\"", "t", "r", "a", "n", "s",
                "c", "r", "i", "p", "t", "-", "b", "u", "b", "b", "l", "e", " ", "a", "g", "e",
                "n", "t", "\"", ">", "<", "s", "p", "a", "n", " ", "c", "l", "a", "s", "s", "=",
                "\"", "t", "r", "a", "n", "s", "c", "r", "i", "p", "t", "-", "s", "p", "e", "a",
                "k", "e", "r", "\"", ">", "C", "h", "a", "t", "b", "o", "t", "<", "/", "s", "p",
                "a", "n", ">">>
    ELSE <<"<", "d", "i", "v", " ", "c", "l", "a", "s", "s", "=", "\"", "t", "r", "a", "n", "s",
                "c", "r", "i", "p", "t", "-", "b", "u", "b", "b", "l", "e", " ", "u", "s", "e",
                "r", "\"", ">", "<", "s", "p", "a", "n", " ", "c", "l", "a", "s", "s", "=", "\"",
                "t", "r", "a", "n", "s", "c", "r", "i", "p", "t", "-", "s", "p", "e", "a", "k",
                "e", "r", "\"", ">", "C", "l", "i", "e", "n", "t", "e", "<", "/", "s", "p", "a",
                "n", ">">>

\* C10: the conversation has exactly one bubble per turn, in turn order, with
\* label Chatbot and class agent for an agent turn, Cliente and user otherwise.
C10_OneBubblePerTurn ==
    (pc = "returned" /\ messages # <<>>) =>
        LET bubbles == Occurrences(html.s, <<"<", "d", "i", "v", " ", "c", "l", "a", "s", "s", "=",
                    "\"", "t", "r", "a", "n", "s", "c", "r", "i", "p", "t", "-", "b", "u", "b",
                    "b", "l", "e", " ">>)
        IN  /\ Cardinality(bubbles) = Len(messages)
            /\ \A p \in bubbles :
                  LET k == Cardinality({q \in bubbles : q <= p})
                      head == ClaimedBubbleHead(messages[k].speaker)
                  IN  /\ p + Len(head) - 1 <= Len(html.s)
                      /\ SubSeq(html.s, p, p + Len(head) - 1) = head

C10_Witness ==
    /\ pc = "returned"
    /\ transcript = ScenarioC
    /\ Len(messages) = 3
    /\ Cardinality(Occurrences(html.s, <<"C", "h", "a", "t", "b", "o", "t">>)) = 2
    /\ Cardinality(Occurrences(html.s, <<"C", "l", "i", "e", "n", "t", "e">>)) = 1

\* the tags format writes around the text of a transcript
Tags ==
    { <<"<", "d", "i", "v", " ", "c", "l", "a", "s", "s", "=", "\"", "t", "r", "a", "n", "s", "c",
                "r", "i", "p", "t", "-", "c", "o", "n", "v", "e", "r", "s", "a", "t", "i", "o",
                "n", "\"", ">">>, <<"<", "d", "i", "v", " ", "c", "l", "a", "s", "s", "=", "\"",
                "t", "r", "a", "n", "s", "c", "r", "i", "p", "t", "-", "b", "u", "b", "b", "l",
                "e", " ", "a", "g", "e", "n", "t", "\"", ">">>,
      <<"<", "d", "i", "v", " ", "c", "l", "a", "s", "s", "=", "\"", "t", "r", "a", "n", "s", "c",
                  "r", "i", "p", "t", "-", "b", "u", "b", "b", "l", "e", " ", "u", "s", "e", "r",
                  "\"", ">">>, <<"<", "d", "i", "v", " ", "c", "l", "a", "s", "s", "=", "\"", "t",
                  "r", "a", "n", "s", "c", "r", "i", "p", "t", "-", "p", "l", "a", "i", "n", "\"",
                  ">">>,
      <<"<", "s", "p", "a", "n", " ", "c", "l", "a", "s", "s", "=", "\"", "t", "r", "a", "n", "s",
                  "c", "r", "i", "p", "t", "-", "s", "p", "e", "a", "k", "e", "r", "\"", ">">>,
                  <<"<", "p", " ", "c", "l", "a", "s", "s", "=", "\"", "t", "r", "a", "n", "s",
                  "c", "r", "i", "p", "t", "-", "t", "e", "x", "t", "\"", ">">>, <<"<", "/", "s",
                  "p", "a", "n", ">">>,
      <<"<", "/", "p", ">">>, <<"<", "/", "d", "i", "v", ">">> }

\* the positions of the output that belong to one of the tags
TagPositions(out) ==
    UNION {UNION {q..(q + Len(tag) - 1) : q \in Occurrences(out, tag)} : tag \in Tags}

\* the entities that stand for the markup-significant characters
Entities == { <<"&", "a", "m", "p", ";">>, <<"&", "l", "t", ";">>, <<"&", "g", "t", ";">>, <<"&",
            "q", "u", "o", "t", ";">>, <<"&", "#", "3", "9", ";">>, <<"&", "#", "x", "2", "7",
            ";">> }

\* an entity starts at position p of the output
EntityAt(out, p) ==
    \E e \in Entities : p + Len(e) - 1 <= Len(out) /\ SubSeq(out, p, p + Len(e) - 1) = e

\* outside the tags, the output holds no <, >, double or single quote, and
\* every ampersand starts an entity
TextNeutralized(out, quotes) ==
    \A p \in (1..Len(out)) \ TagPositions(out) :
        /\ out[p] \notin ({"<", ">"} \cup quotes)
        /\ out[p] = "&" => EntityAt(out, p)

\* C11: in every output of format, whatever the source format, the characters
\* <, >, & and the quote characters that come from the transcript text appear
\* only as entities.
C11_MarkupCharactersNeutralized ==
    pc = "returned" => TextNeutralized(html.s, {"\"", "'"})

\* C12: whichever path renders a transcript whose text holds <script>, the
\* output of format holds no unescaped <script>: the text shows it as
\* &lt;script&gt;.
C12_NoUnescapedScript ==
    pc = "returned" =>
        /\ Occurrences(html.s, <<"<", "s", "c", "r", "i", "p", "t">>) = {}
        /\ Occurrences(html.s, <<"<", "/", "s", "c", "r", "i", "p", "t">>) = {}
        /\ TextNeutralized(html.s, {})
        /\ transcript \in Marked \ {Arr(<<EntryQuotes>>), Str(<<"A", "g", "e", "n", "t", ":", " ",
                    "d", "i", "j", "o", " ", "\"", "h", "o", "l", "a", "\"">>),
                                    Str(<<"a", " ", "&", "a", "m", "p", ";", " ", "b">>)}
           => Occurrences(html.s, <<"&", "l", "t", ";", "s", "c", "r", "i", "p", "t", "&", "g",
                       "t", ";">>) # {}
        /\ transcript = Arr(<<EntryScriptSpeaker>>)
           => html = Str(<<"<", "d", "i", "v", " ", "c", "l", "a", "s", "s", "=", "\"", "t", "r",
                       "a", "n", "s", "c", "r", "i", "p", "t", "-", "p", "l", "a", "i", "n", "\"",
                       ">", "[", "{", "\"", "s", "p", "e", "a", "k", "e", "r", "\"", ":", "\"",
                       "&", "l", "t", ";", "s", "c", "r", "i", "p", "t", "&", "g", "t", ";", "\"",
                       "}", "]", "<", "/", "d", "i", "v", ">">>)

C12_Witness ==
    /\ pc = "returned"
    /\ transcript = Str(<<"U", "s", "e", "r", ":", " ", "<", "s", "c", "r", "i", "p", "t", ">",
                "a", "l", "e", "r", "t", "(", "1", ")", "<", "/", "s", "c", "r", "i", "p", "t",
                ">">>)
    /\ html = Str(<<"<", "d", "i", "v", " ", "c", "l", "a", "s", "s", "=", "\"", "t", "r", "a",
                "n", "s", "c", "r", "i", "p", "t", "-", "c", "o", "n", "v", "e", "r", "s", "a",
                "t", "i", "o", "n", "\"", ">", "<", "d", "i", "v", " ", "c", "l", "a", "s", "s",
                "=", "\"", "t", "r", "a", "n", "s", "c", "r", "i", "p", "t", "-", "b", "u", "b",
                "b", "l", "e", " ", "u", "s", "e", "r", "\"", ">">>
                  \o <<"<", "s", "p", "a", "n", " ", "c", "l", "a", "s", "s", "=", "\"", "t", "r",
                              "a", "n", "s", "c", "r", "i", "p", "t", "-", "s", "p", "e", "a", "k",
                              "e", "r", "\"", ">", "C", "l", "i", "e", "n", "t", "e", "<", "/",
                              "s", "p", "a", "n", ">", "<", "p", " ", "c", "l", "a", "s", "s", "=",
                              "\"", "t", "r", "a", "n", "s", "c", "r", "i", "p", "t", "-", "t",
                              "e", "x", "t", "\"", ">">>
                  \o <<"&", "l", "t", ";", "s", "c", "r", "i", "p", "t", "&", "g", "t", ";", "a",
                              "l", "e", "r", "t", "(", "1", ")", "&", "l", "t", ";", "/", "s", "c",
                              "r", "i", "p", "t", "&", "g", "t", ";", "<", "/", "p", ">", "<", "/",
                              "d", "i", "v", ">", "<", "/", "d", "i", "v", ">">>)

----------------------------------------------------------------------------
(* Properties of repeated invocations of format *)

----------------------------------------------------------------------------
(* Properties of the login flow *)

\* the attempt state read from the stored item
StoredState == IF store = Null THEN AttemptState(Num(0), Null) ELSE JSONParse(store.s).v

StoredCount == GetProp(StoredState, <<"c", "o", "u", "n", "t">>).n

StoredLockoutUntil == GetProp(StoredState, <<"l", "o", "c", "k", "o", "u", "t", "U", "n", "t", "i",
            "l">>)

\* a lockout is stored and has not ended
LockedOut == StoredLockoutUntil # Null /\ now < StoredLockoutUntil.n

\* C14: with the configuration of the repository the login bypass is off, so
\* authenticate reports success, and login reaches the dashboard, only when
\* the authentication webhook answered with status success.
C14_DefaultLoginNeedsWebhook ==
    config = DEV_MODE =>
        /\ called => ~config.BYPASS_LOGIN
        /\ view = "dashboard" => grantedBy = "webhook"

\* C15: once MAX_LOGIN_ATTEMPTS failed logins are recorded a lockout is
\* stored, and every submission that starts before the stored lockoutUntil is
\* rejected with the lockout message without calling authenticate.
C15_LockedOutSubmissionsRejected ==
    /\ [](StoredCount >= MAX_LOGIN_ATTEMPTS => StoredLockoutUntil # Null)
    /\ [][(Submit /\ LockedOut)
          => /\ shown' = LockoutMessage(CeilMinutes(StoredLockoutUntil.n - now))
             /\ ~called'
             /\ UNCHANGED <<pending, store, view, grantedBy>>]_vars

C15_Witness ==
    /\ StoredCount = MAX_LOGIN_ATTEMPTS
    /\ StoredLockoutUntil = Num(LockoutDurationMs)
    /\ now = TimeStep
    /\ shown = LockoutMessage(8)
    /\ ~called
    /\ pending = 0
    /\ view = "login"

----------------------------------------------------------------------------
(* Properties of the two parsers *)

\* the speaker labels of the plain-text format, lowercased
ClaimedLabels ==
    { <<"a", "g", "e", "n", "t">>, <<"u", "s", "e", "r">>, <<"a", "i">>, <<"c", "u", "s", "t", "o",
                "m", "e", "r">>, <<"b", "o", "t">>, <<"c", "l", "i", "e", "n", "t", "e">>, <<"a",
                "s", "i", "s", "t", "e", "n", "t", "e">>,
      <<"c", "h", "a", "t", "b", "o", "t">>, <<"h", "u", "m", "a", "n">>, <<"h", "u", "m", "a",
                  "n", "o">>, <<"a", "s", "s", "i", "s", "t", "a", "n", "t">>, <<"a", "g", "e",
                  "n", "t", "e">> }

\* the label a line starts with, lowercased; the empty string when it has none
LabelOf(line) ==
    LET found == {l \in ClaimedLabels : StartsWith(ToLowerCase(line), l \o <<":">>)}
    IN  IF found = {} THEN <<>> ELSE CHOOSE l \in found : TRUE

\* what follows the label, the colon and the white space of a label line
AfterLabel(line) == SubSeq(line, SkipSpace(line, Len(LabelOf(line)) + 2), Len(line))

IsNonBlank(line) == Trim(line) # <<>>

\* the non-blank lines of a string, each trimmed
NonBlankLines(v) ==
    LET kept == SelectSeq(SplitLines(Trim(v.s), 1), IsNonBlank)
    IN  [k \in 1..Len(kept) |-> Trim(kept[k])]

\* the lines without label from line k up to the next label line
RECURSIVE Unlabelled(_, _)
Unlabelled(nb, k) ==
    IF k > Len(nb) \/ LabelOf(nb[k]) # <<>> THEN <<>>
    ELSE <<nb[k]>> \o Unlabelled(nb, k + 1)

\* the turn that label line h opens (h = 0: the lines before the first label):
\* its speaker, and its line remainder and unlabelled lines joined by spaces
ClaimedTurn(nb, h) ==
    Message(IF h = 0 THEN "user" ELSE ClaimedRole(LabelOf(nb[h])),
            Join(SelectSeq((IF h = 0 THEN <<>> ELSE <<AfterLabel(nb[h])>>)
                           \o Unlabelled(nb, h + 1), IsNonBlank), <<" ">>))

\* the turns of the label lines from line h on, in line order
RECURSIVE ClaimedTurns(_, _)
ClaimedTurns(nb, h) ==
    IF h > Len(nb) THEN <<>>
    ELSE (IF (h = 0 \/ LabelOf(nb[h]) # <<>>) /\ ClaimedTurn(nb, h).text # <<>>
          THEN <<ClaimedTurn(nb, h)>> ELSE <<>>) \o ClaimedTurns(nb, h + 1)

\* format returned the turns of the plain-text parser on a string
TextParsed == pc = "returned" /\ IsString(transcript) /\ ~LooksLikeJSON(transcript)

\* C16: a label line first ends the buffered turn, attributed to the previous
\* speaker, and then sets the speaker; so every turn has the speaker of the
\* last label line before its text and the turns come in line order
\* (scenario C gives Agent, User, Agent).
C16_TurnsFollowLabelLines ==
    /\ TextParsed =>
          LET turns == ClaimedTurns(NonBlankLines(transcript), 0)
          IN  /\ Len(messages) = Len(turns)
              /\ \A i \in 1..Len(messages) : messages[i].speaker = turns[i].speaker
    /\ (pc = "returned" /\ transcript = ScenarioC)
       => messages = <<Message("agent", <<"H", "e", "l", "l", "o", " ", "t", "h", "e", "r", "e">>),
                   Message("user", <<"I", " ", "n", "e", "e", "d", " ", "h", "e", "l", "p">>),
                       Message("agent", <<"S", "u", "r", "e", ",", " ", "o", "n", "e", " ", "m",
                                   "o", "m", "e", "n", "t">>)>>

C16_Witness ==
    /\ pc = "returned"
    /\ transcript = ScenarioC
    /\ Len(messages) = 3
    /\ messages[2] = Message("user", <<"I", " ", "n", "e", "e", "d", " ", "h", "e", "l", "p">>)

\* C17: a non-blank line without label never starts a turn: it is appended to
\* the buffer after one space, or becomes the buffer when that is empty, so the
\* lines after a label line form one turn, joined by single spaces in line
\* order; blank lines change nothing.
C17_UnlabelledLinesJoinTurn ==
    TextParsed =>
        /\ LET nb == NonBlankLines(transcript)
               turns == ClaimedTurns(nb, 0)
           IN  /\ Len(messages) <= 1 + Cardinality({k \in 1..Len(nb) : LabelOf(nb[k]) # <<>>})
               /\ [i \in 1..Len(messages) |-> messages[i].text]
                  = [i \in 1..Len(turns) |-> turns[i].text]
        /\ transcript = Str(<<"B", "o", "t", ":", "\n", "h", "o", "l", "a", " ", "<", "s", "c",
                    "r", "i", "p", "t", ">", "\n", "{">>)
           => messages = <<Message("agent", <<"h", "o", "l", "a", " ", "<", "s", "c", "r", "i",
                       "p", "t", ">", " ", "{">>)>>

C17_Witness ==
    /\ pc = "returned"
    /\ transcript = Str(<<"A", "g", "e", "n", "t", ":", " ", "H", "e", "l", "l", "o", " ", "t",
                "h", "e", "r", "e", "\n", "\n", "h", "o", "l", "a", " ", "<", "s", "c", "r", "i",
                "p", "t", ">">>)
    /\ messages = <<Message("agent", <<"H", "e", "l", "l", "o", " ", "t", "h", "e", "r", "e", " ",
                "h", "o", "l", "a", " ", "<", "s", "c", "r", "i", "p", "t", ">">>)>>

\* C18: the text on the lines before the first speaker label is gathered in
\* one turn of speaker User, which comes before the turn of the first label.
C18_LeadingTextIsUserTurn ==
    TextParsed =>
        LET nb == NonBlankLines(transcript)
        IN  (nb # <<>> /\ LabelOf(nb[1]) = <<>>)
            => /\ messages # <<>>
               /\ messages[1] = Message("user", Join(Unlabelled(nb, 1), <<" ">>))
               /\ Tail(messages) = ClaimedTurns(nb, 1)

C18_Witness ==
    /\ pc = "returned"
    /\ transcript = Str(<<"h", "o", "l", "a", " ", "<", "s", "c", "r", "i", "p", "t", ">", "\n",
                "{", "\n", "A", "g", "e", "n", "t", ":", " ", "H", "e", "l", "l", "o", " ", "t",
                "h", "e", "r", "e">>)
    /\ messages = <<Message("user", <<"h", "o", "l", "a", " ", "<", "s", "c", "r", "i", "p", "t",
                ">", " ", "{">>), Message("agent", <<"H", "e", "l", "l", "o", " ", "t", "h", "e",
                "r", "e">>)>>

\* the text of a field of an entry; the empty string when the entry has no
\* such field or the field holds no string
FieldText(entry, name) ==
    IF entry.t = "obj" /\ IsString(GetProp(entry, name)) THEN GetProp(entry, name).s ELSE <<>>

\* the first of role, speaker and type that an entry gives, else the empty string
ClaimedSpeakerField(entry) ==
    IF FieldText(entry, <<"r", "o", "l", "e">>) # <<>> THEN FieldText(entry, <<"r", "o", "l", "e">>)
    ELSE IF FieldText(entry, <<"s", "p", "e", "a", "k", "e", "r">>) # <<>> THEN FieldText(entry,
                <<"s", "p", "e", "a", "k", "e", "r">>)
    ELSE FieldText(entry, <<"t", "y", "p", "e">>)

\* every entry of the array gave a turn
TurnOfEveryEntry ==
    pc = "returned" /\ IsArray(transcript) /\ Len(messages) = Len(transcript.a)

\* C19: the speaker of an entry's turn is its role, else its speaker, else
\* its type, lowercased and normalized; an entry with none gives User, and a
\* lower field is not consulted when a higher one is found (role user with
\* speaker agent gives User).
C19_SpeakerFieldPriority ==
    /\ TurnOfEveryEntry =>
          \A i \in 1..Len(messages) :
              messages[i].speaker = ClaimedRole(ClaimedSpeakerField(transcript.a[i]))
    /\ (pc = "returned" /\ transcript = Arr(<<EntryRoleAndSpeaker>>))
       => messages = <<Message("user", <<"<", "b", ">", "o", "k", "<", "/", "b", ">">>)>>
    /\ (pc = "returned" /\ transcript = Arr(<<EntryNoSpeaker>>))
       => messages = <<Message("user", <<"a", " ", "&", " ", "b">>)>>

C19_Witness ==
    /\ pc = "returned"
    /\ transcript = Arr(<<EntryRoleAndSpeaker, EntryBotHi>>)
    /\ messages = <<Message("user", <<"<", "b", ">", "o", "k", "<", "/", "b", ">">>),
                Message("agent", <<"H", "i">>)>>

\* what an element of a words array contributes: its word sub-field, or the
\* element itself when it has no word property
ClaimedWord(w) ==
    IF w.t = "obj" /\ GetProp(w, <<"w", "o", "r", "d">>) # Undefined THEN ToString(GetProp(w,
                <<"w", "o", "r", "d">>))
    ELSE ToString(w)

\* the text of an entry: content, else text, else message, else the words
ClaimedText(entry) ==
    IF FieldText(entry, <<"c", "o", "n", "t", "e", "n", "t">>) # <<>> THEN FieldText(entry, <<"c",
                "o", "n", "t", "e", "n", "t">>)
    ELSE IF FieldText(entry, <<"t", "e", "x", "t">>) # <<>> THEN FieldText(entry, <<"t", "e", "x",
                "t">>)
    ELSE IF FieldText(entry, <<"m", "e", "s", "s", "a", "g", "e">>) # <<>> THEN FieldText(entry,
                <<"m", "e", "s", "s", "a", "g", "e">>)
    ELSE IF entry.t = "obj" /\ IsArray(GetProp(entry, <<"w", "o", "r", "d", "s">>))
    THEN Join([k \in 1..Len(GetProp(entry, <<"w", "o", "r", "d", "s">>).a) |->
                  ClaimedWord(GetProp(entry, <<"w", "o", "r", "d", "s">>).a[k])], <<" ">>)
    ELSE <<>>

\* C20: the text of an entry is its content, else its text, else its message,
\* else its words joined by single spaces, each element giving its word
\* sub-field, or itself when it has no word property (scenario E gives the
\* turn Agent "Good morning").
C20_TextFieldPriority ==
    /\ TurnOfEveryEntry =>
          \A i \in 1..Len(messages) : messages[i].text = Trim(ClaimedText(transcript.a[i]))
    /\ (pc = "returned" /\ transcript = ScenarioE)
       => messages = <<Message("agent", <<"G", "o", "o", "d", " ", "m", "o", "r", "n", "i", "n",
                   "g">>)>>


\* C21: for a string holding JSON the text parser runs only when the structured
\* parser produced no turn: as soon as one entry of the decoded array yields a
\* turn, the turns rendered are exactly those of the entries, in order, and no
\* entry is recovered by parsing the text.
C21_TextParserOnlyWithoutStructuredTurns ==
    (pc # "called" /\ LooksLikeJSON(transcript) /\ IsArray(StructuredSource(transcript))
        /\ TurnPerEntry(StructuredSource(transcript).a, 1) # <<>>)
    => (pc = "returned" /\ messages = TurnPerEntry(StructuredSource(transcript).a, 1))

\* a line that is a speaker label with nothing after its colon
BareLabel(line) == LabelOf(line) # <<>> /\ Trim(AfterLabel(line)) = <<>>

\* the string has a non-blank line that is not a bare speaker label
HasSpokenLine(v) ==
    LET nb == NonBlankLines(v) IN \E k \in 1..Len(nb) : ~BareLabel(nb[k])

C23_ArrayAndItsJSONTextAgree ==
    (pc = "returned" /\ IsArray(transcript) /\ messages # <<>>)
    => LET encoded == format(Str(JSONStringify(transcript)))
       IN  /\ ~encoded.threw
           /\ encoded.messages = messages
           /\ encoded.v = html

\* an array whose turn holds quotes, which its JSON text escapes
C23_Witness ==
    /\ pc = "returned"
    /\ transcript = Arr(<<EntryQuotes>>)
    /\ Len(messages) = 1
    /\ \E k \in 1..Len(messages[1].text) : messages[1].text[k] = "\""
    /\ format(Str(JSONStringify(transcript))).v = html

----------------------------------------------------------------------------
(* Properties of the rate limiter and of the session *)

\* C24: a lockout check made at or after the stored lockoutUntil clears the
\* stored attempt state and reports no lockout, so that the count is 0 again
\* and getRemainingAttempts gives MAX_LOGIN_ATTEMPTS; a check made before
\* lockoutUntil reports the lockout and leaves the stored state as it is.
C24_ExpiredLockoutIsCleared ==
    [][(Submit /\ StoredLockoutUntil # Null)
       => IF now < StoredLockoutUntil.n
          THEN /\ checked' = "locked"
               /\ shown'.kind = "lockout"
               /\ store' = store
          ELSE /\ checked' = "expired"
               /\ shown'.kind # "lockout"
               /\ store' = Null
               /\ GetProp(getAttemptState(store'), <<"c", "o", "u", "n", "t">>) = Num(0)
               /\ getRemainingAttempts(store') = MAX_LOGIN_ATTEMPTS]_vars

\* a submission of invalid credentials made when the lockout is over: the
\* lockout check has cleared the attempts
C24_Witness ==
    /\ checked = "expired"
    /\ store = Null
    /\ getRemainingAttempts(store) = MAX_LOGIN_ATTEMPTS
    /\ now >= LockoutDurationMs
    /\ shown.kind = "validation"
    /\ view = "login"

\* C25: whatever the interleaving of submissions and answers, no more than
\* MAX_LOGIN_ATTEMPTS authentication requests are posted between two resets of
\* the attempt state.
C25_RequestsWithinLimit == issued <= MAX_LOGIN_ATTEMPTS

\* C26: in every stored attempt state lockoutUntil is set exactly when count
\* has reached MAX_LOGIN_ATTEMPTS, and getRemainingAttempts gives 0 exactly
\* when a lockoutUntil is stored.
C26_LockoutIffLimitReached ==
    /\ StoredLockoutUntil # Null <=> StoredCount >= MAX_LOGIN_ATTEMPTS
    /\ getRemainingAttempts(store) = 0 <=> StoredLockoutUntil # Null

\* a failure recorded after the limit was reached
C26_Witness ==
    /\ StoredCount > MAX_LOGIN_ATTEMPTS
    /\ StoredLockoutUntil # Null
    /\ getRemainingAttempts(store) = 0
    /\ shown.kind = "blocked"

\* the instant the stored session is said to expire at
ClaimedExpiry == sessionAt + SESSION_DURATION_MINUTES * 60 * 1000

\* C27: isSessionValid holds exactly when a session is stored and the time is
\* before its expiresAt, which is its creation time plus
\* SESSION_DURATION_MINUTES; after destroySession it is false until the next
\* createSession; initialize shows the dashboard only when it holds.
C27_SessionValidUntilExpiry ==
    /\ [](isSessionValid(session, now) <=> (session # Null /\ now < ClaimedExpiry))
    /\ [](session # Null
            => GetProp(JSONParse(session.s).v, <<"e", "x", "p", "i", "r", "e", "s", "A",
                        "t">>) = Num(ClaimedExpiry))
    /\ [][Logout => (session' = Null /\ ~isSessionValid(session', now'))]_vars
    /\ [][Load => (view' = "dashboard" => isSessionValid(session, now))]_vars

\* a page loaded at the instant the stored session expires shows the login
C27_Witness ==
    /\ session # Null
    /\ sessionAt = 0
    /\ now = ClaimedExpiry
    /\ ~isSessionValid(session, now)
    /\ view = "login"

----------------------------------------------------------------------------
(* Properties of the recovery of a password *)

\* C28: when the POST of the recovery request fails, by an HTTP error or a
\* network error, an error message is shown and the success message is not;
\* whatever the outcome, the submit button ends enabled with its original
\* label.
C28_FailedRecoveryShowsError ==
    /\ answered.via \in {"http", "network"} => answered.type = "error"
    /\ recoveryMessage.type = "success" => answered.via = "json"
    /\ ~recoveryRequest.posted => submitButton = [disabled |-> FALSE, innerHTML |-> SubmitLabel]

----------------------------------------------------------------------------
(* Properties of the call history *)

\* the data-call-index values of the transcript buttons the table shows
ButtonIndexes == {tableBody.rows[k] : k \in {j \in 1..Len(tableBody.rows) : tableBody.rows[j] # -1}}

\* C29: whatever the order of requests and responses, any transcript button
\* the calls table shows carries the index i of its row, and
\* formattedTranscripts[i] is the non-empty HTML that format gives for the
\* transcript of the i-th call of the list that was rendered into the table
C29_ButtonsMatchTheirTranscripts ==
    /\ tableBody.kind # "rows" => tableBody.rows = <<>>
    /\ Len(tableBody.rows) = Len(tableCalls)
    /\ \A k \in 1..Len(tableBody.rows) :
          tableBody.rows[k] # -1 =>
             /\ tableBody.rows[k] = k - 1
             /\ k <= Len(formattedTranscripts)
             /\ IsString(formattedTranscripts[k])
             /\ formattedTranscripts[k].s # <<>>
             /\ formattedTranscripts[k] = format(TranscriptOf(tableCalls[k])).v

\* two buttons with different transcripts are shown while another request is
\* still in flight, after an earlier response had been rendered and opened
C29_Witness ==
    /\ ButtonIndexes = {0, 1}
    /\ formattedTranscripts[1] # formattedTranscripts[2]
    /\ callsPending > 0
    /\ modalBody # Str(<<>>)

----------------------------------------------------------------------------
(* Properties of formatMinutesToReadable *)

\* the inputs that are no number: no numeral stands at their start
NonNumeric == {Str(<<"a", "b", "c">>), Str(<<".">>), Str(<<"-">>), Str(<<>>), Null, Undefined,
            Bool(TRUE)}

\* C30: formatMinutesToReadable gives "1h 20min 30seg" for 80.5, "48seg" for
\* 0.80 and "2h 5min" for 125, and "0min" for an input that is no number,
\* zero or negative
C30_ReadableMinutes ==
    minutesPc = "done" =>
       /\ totalMinutes \in {Hundredths(8050), Str(<<"8", "0", ".", "5">>)} => readable = <<"1",
                   "h", " ", "2", "0", "m", "i", "n", " ", "3", "0", "s", "e", "g">>
       /\ totalMinutes \in {Hundredths(80), Str(<<"0", ".", "8">>)} => readable = <<"4", "8", "s",
                   "e", "g">>
       /\ totalMinutes \in {Hundredths(12500), Str(<<"1", "2", "5">>)} => readable = <<"2", "h",
                   " ", "5", "m", "i", "n">>
       /\ totalMinutes \in NonNumeric => readable = <<"0", "m", "i", "n">>
       /\ (totalMinutes.t = "num" /\ totalMinutes.hundredths <= 0) => readable = <<"0", "m", "i",
                   "n">>
====
